---------------------------- MODULE Spec2Model ----------------------------
(***************************************************************************)
(* Drag-and-drop step builders with a timer-driven execution simulation.   *)
(*                                                                         *)
(*   ScienceExperimentWorkbench.svelte  palette -> canvas, reorder,        *)
(*                                      per-phase timers, run-all          *)
(*   unnamed/part_000                   the same workbench, icon           *)
(*                                      components instead of SVG strings  *)
(*   WorkflowBuilder.svelte (1st part)  palette -> canvas, reorder         *)
(*   WorkflowBuilder.svelte (2nd part)  plain draggable list               *)
(*                                                                         *)
(* Array indices are JavaScript's (0-based); TLA+ sequences are 1-based,   *)
(* so element i of an array is seq[i + 1].                                 *)
(***************************************************************************)
EXTENDS Integers, Sequences, FiniteSets, TLC

NULL == "null"

\* ------------------------------------------------------------------------
\* JavaScript array primitives
\* ------------------------------------------------------------------------

\* Array.prototype.findIndex for "element with this id": first index or -1.
RECURSIVE FindFrom(_, _, _)
FindFrom(arr, id, i) ==
    IF i > Len(arr) THEN -1
    ELSE IF arr[i].id = id THEN i - 1
    ELSE FindFrom(arr, id, i + 1)

FindIndex(arr, id) == FindFrom(arr, id, 1)

Min(a, b) == IF a < b THEN a ELSE b

\* A variant that takes a copy of the element and leaves the array whole.
SpliceRemove_copies(arr, start) == arr

\* arr.splice(start, 1): the array without the element at index start.
SpliceRemove(arr, start) ==
    IF start >= Len(arr) THEN arr
    ELSE SubSeq(arr, 1, start) \o SubSeq(arr, start + 2, Len(arr))

\* arr.splice(start, 0, item): item inserted at index start (start is
\* clamped to the length, as splice does).
SpliceInsert(arr, start, item) ==
    LET s == Min(start, Len(arr))
    IN  SubSeq(arr, 1, s) \o <<item>> \o SubSeq(arr, s + 1, Len(arr))

\* arr.filter(p => p.id !== id)
RECURSIVE FilterOut(_, _)
FilterOut(arr, id) ==
    IF arr = <<>> THEN <<>>
    ELSE IF Head(arr).id = id THEN FilterOut(Tail(arr), id)
    ELSE <<Head(arr)>> \o FilterOut(Tail(arr), id)

IdsOf(arr) == {arr[i].id : i \in 1..Len(arr)}

\* ------------------------------------------------------------------------
\* IEEE-754 binary64 arithmetic on the values progress takes.
\* A number (0, or in [1, 128)) is <<ip, fh, fl>>: integer part and the 52
\* fraction bits below it as two 26-bit limbs, i.e. the exact value
\* ip + fh / 2^26 + fl / 2^52.  A double in [2^e, 2^(e+1)) has 53
\* significant bits, so its last e bits of fl are zero; every operation
\* rounds its exact result to that grid, ties to even.
\* ------------------------------------------------------------------------
Limb == 2^26

RECURSIVE Exponent(_)
Exponent(ip) == IF ip < 2 THEN 0 ELSE 1 + Exponent(ip \div 2)

\* Carries propagated upwards.
Carry(ip, fh, fl) ==
    LET h == fh + (fl \div Limb)
    IN  <<ip + (h \div Limb), h % Limb, fl % Limb>>

\* Round the exact value (ip, fh, fl) + (r / m) * 2^-52, 0 <= r < m, to
\* the nearest double, ties to even.
RoundNearestEven(ip, fh, fl, r, m) ==
    LET e    == Exponent(ip)
        ulp  == 2^e
        low  == fl % ulp
        odd  == ((fl \div ulp) % 2) = 1
        up   == IF e = 0
                THEN (2 * r > m) \/ (2 * r = m /\ odd)
                ELSE \/ 2 * low > ulp
                     \/ 2 * low = ulp /\ (r > 0 \/ odd)
    IN  IF up THEN Carry(ip, fh, fl - low + ulp)
        ELSE <<ip, fh, fl - low>>

\* a + b
FAdd(a, b) ==
    LET s == Carry(a[1] + b[1], a[2] + b[2], a[3] + b[3])
    IN  RoundNearestEven(s[1], s[2], s[3], 0, 1)

\* The next 26 quotient bits of r / m (0 <= r < m < 2^17) by long division,
\* 13 bits at a time: <<bits, remainder>>.
LongDiv26(r, m) ==
    LET q1 == (r * 2^13) \div m
        r1 == (r * 2^13) % m
        q2 == (r1 * 2^13) \div m
        r2 == (r1 * 2^13) % m
    IN  <<q1 * 2^13 + q2, r2>>

\* n / m for positive integers with 1 <= n / m < 128.
FDiv(n, m) ==
    LET hi == LongDiv26(n % m, m)
        lo == LongDiv26(hi[2], m)
    IN  RoundNearestEven(n \div m, hi[1], lo[1], lo[2], m)

FInt(n) == <<n, 0, 0>>

\* A variant of the comparison: a > n.
FGeqInt_strict(a, n) == a[1] > n

\* a >= n for an integer n
FGeqInt(a, n) == a[1] >= n

\* Math.min(n, a) for an integer n
FMinInt(n, a) == IF FGeqInt(a, n) THEN FInt(n) ELSE a


\* ------------------------------------------------------------------------
\* Bounds of the model
\* ------------------------------------------------------------------------

\* Phases (or steps) ever dropped on a canvas; ids are 1..MaxPhases.
MaxPhases == 3

\* A phase is started or resumed by hand only while its log is shorter.
MaxLog == 2

\* Clicks on the run-all button.
MaxRunAll == 2

\* ------------------------------------------------------------------------
\* ScienceExperimentWorkbench: configuration and state
\* ------------------------------------------------------------------------

\* The palette. icon and color are display data copied along with type and
\* never read by a handler; they are left out of the records.
paletteBlocks == <<
    [type |-> "SAMPLE_PREP", label |-> "Sample Preparation",
     defaultText |-> "Prepare and calibrate samples...",
     estimatedDuration |-> 10],
    [type |-> "DATA_ACQUISITION", label |-> "Data Acquisition",
     defaultText |-> "Collect data from sensors/instruments...",
     estimatedDuration |-> 20],
    [type |-> "ANALYSIS_ALGORITHM", label |-> "Analysis Algorithm",
     defaultText |-> "Run processing and analysis scripts...",
     estimatedDuration |-> 15],
    [type |-> "VISUALIZE_RESULTS", label |-> "Visualize Results",
     defaultText |-> "Generate charts and visual outputs...",
     estimatedDuration |-> 8],
    [type |-> "REPORT_GENERATION", label |-> "Generate Report",
     defaultText |-> "Compile findings into a final report...",
     estimatedDuration |-> 12] >>

PaletteSet == {paletteBlocks[i] : i \in 1..Len(paletteBlocks)}

\* The period of every simulation interval, in milliseconds.
TickIntervalMs == 200

VARIABLES
    variant,           \* the mounted component; for the workbench, its build
    experimentPhases,  \* the store: array of ExperimentPhase
    draggingItem,      \* NoDrag, or [type, id, data]
    dragOverCanvas,
    dragOverPhaseId,   \* 0 is null
    phaseIntervals,    \* phase id -> interval handle
    activeIntervals,   \* the host's live intervals: handle -> closure
    runAllWaiting,     \* suspended runAllPhases calls, in subscription order
    runAllCalls,       \* number of runAllPhases calls so far
    nextId,            \* ids handed out so far + 1 (uuidv7 never repeats)
    tickCount,         \* phase id -> advancing ticks since progress was 0
    destroyed,         \* onDestroy has run
    lastEvent          \* the handler that ran last, with what it was given

\* WorkflowBuilder.svelte, first component.  Its draggingItem, dragOverCanvas
\* and id source carry the prefix wf to tell them from the workbench's.
VARIABLES
    workflowSteps,           \* the store: array of WorkflowStep
    wfDraggingItem,          \* NoDrag, or [type, id, data]
    wfDragOverCanvas,
    dragOverWorkflowItemId,  \* 0 is null
    wfNextId                 \* ids handed out so far + 1

\* WorkflowBuilder.svelte, second component (the draggable list).
VARIABLES
    items,                   \* the store: array of Item
    draggingItemId,          \* 0 is null
    dragOverItemId           \* 0 is null

wbState == <<variant, experimentPhases, draggingItem, dragOverCanvas,
             dragOverPhaseId, phaseIntervals, activeIntervals, runAllWaiting,
             runAllCalls, nextId, tickCount, destroyed>>
wfVars == <<workflowSteps, wfDraggingItem, wfDragOverCanvas,
            dragOverWorkflowItemId, wfNextId>>
listVars == <<items, draggingItemId, dragOverItemId>>
vars == <<wbState, wfVars, listVars, lastEvent>>

\* What a handler of the workbench cannot reach.
notWorkbench == <<wfVars, listVars>>

Variants == {"svelte", "part_000"}

\* draggingItem = null
NoDrag == [type |-> NULL]

\* f without key k / f with k bound to v
Without(f, k) == [x \in DOMAIN f \ {k} |-> f[x]]
With(f, k, v) == [x \in DOMAIN f \cup {k} |-> IF x = k THEN v ELSE f[x]]

\* setInterval's return value: a positive handle the host has not in use.
\* Handles matter only up to equality, so the least free one is taken; a
\* handle still held in phaseIntervals is never handed out again.
NewHandle(registry, active) ==
    LET used == DOMAIN active \cup {registry[k] : k \in DOMAIN registry}
    IN  CHOOSE h \in 1..(Cardinality(used) + 1) : h \notin used

\* clearInterval(h)
ClearInterval(active, h) == Without(active, h)

\* A variant that never clears an interval.
ClearRegistered_never(registry, active, id) == active

\* if (phaseIntervals[id]) clearInterval(phaseIntervals[id])
ClearRegistered(registry, active, id) ==
    IF id \in DOMAIN registry THEN ClearInterval(active, registry[id])
    ELSE active


\* ------------------------------------------------------------------------
\* ScienceExperimentWorkbench: the execution engine.
\* The engine's handlers are written over a record M of the state they
\* touch: phases (the store), registry (phaseIntervals), active (the
\* host's intervals), waiting (suspended runAllPhases calls), ticks.
\* ------------------------------------------------------------------------

Engine == [phases |-> experimentPhases, registry |-> phaseIntervals,
           active |-> activeIntervals, waiting |-> runAllWaiting,
           ticks |-> tickCount]

\* A variant of the increment for four ticks a second.
ProgressIncrement_quarter(estimatedDuration) ==
    LET steps == estimatedDuration * 4
    IN  IF steps > 0 THEN FDiv(100, steps) ELSE FInt(100)

\* p.estimatedDuration * (1000 / 200), then steps > 0 ? 100 / steps : 100
ProgressIncrement(estimatedDuration) ==
    LET steps == estimatedDuration * (1000 \div TickIntervalMs)
    IN  IF steps > 0 THEN FDiv(100, steps) ELSE FInt(100)

\* A variant of the body that starts a paused phase again from 0.
ToggleOne_restart(M, phaseId, i) ==
    LET p == M.phases[i]
    IN  IF p.id # phaseId THEN M
        ELSE IF p.status = "running" THEN
            [M EXCEPT
                !.active = ClearRegistered(M.registry, M.active, p.id),
                !.registry = Without(M.registry, p.id),
                !.phases[i].status = "paused"]
        ELSE IF p.status \in {"pending", "paused", "failed"} THEN
            LET cleared == ClearRegistered(M.registry, M.active, p.id)
                h == NewHandle(M.registry, cleared)
                progress == FInt(0)
            IN  [M EXCEPT
                    !.active = With(cleared, h,
                        [id |-> p.id,
                         progressIncrement |->
                            ProgressIncrement(p.estimatedDuration)]),
                    !.registry = With(M.registry, p.id, h),
                    !.phases[i] = [p EXCEPT
                        !.status = "running",
                        !.progress = progress,
                        !.logs = Append(p.logs, "started")],
                    !.ticks = With(M.ticks, p.id,
                        IF p.status = "paused" THEN M.ticks[p.id] ELSE 0)]
        ELSE IF p.status = "completed" THEN
            [M EXCEPT
                !.phases[i] = [p EXCEPT
                    !.status = "pending",
                    !.progress = FInt(0),
                    !.actualDuration = NULL,
                    !.logs = <<"reset">>],
                !.ticks = With(M.ticks, p.id, 0)]
        ELSE M

\* A variant of the body whose reset keeps the log and adds to it.
ToggleOne_resetAppends(M, phaseId, i) ==
    LET p == M.phases[i]
    IN  IF p.id # phaseId THEN M
        ELSE IF p.status = "running" THEN
            [M EXCEPT
                !.active = ClearRegistered(M.registry, M.active, p.id),
                !.registry = Without(M.registry, p.id),
                !.phases[i].status = "paused"]
        ELSE IF p.status \in {"pending", "paused", "failed"} THEN
            LET cleared == ClearRegistered(M.registry, M.active, p.id)
                h == NewHandle(M.registry, cleared)
                progress == IF p.status = "paused" THEN p.progress
                            ELSE FInt(0)
            IN  [M EXCEPT
                    !.active = With(cleared, h,
                        [id |-> p.id,
                         progressIncrement |->
                            ProgressIncrement(p.estimatedDuration)]),
                    !.registry = With(M.registry, p.id, h),
                    !.phases[i] = [p EXCEPT
                        !.status = "running",
                        !.progress = progress,
                        !.logs = Append(p.logs, "started")],
                    !.ticks = With(M.ticks, p.id,
                        IF p.status = "paused" THEN M.ticks[p.id] ELSE 0)]
        ELSE IF p.status = "completed" THEN
            [M EXCEPT
                !.phases[i] = [p EXCEPT
                    !.status = "pending",
                    !.progress = FInt(0),
                    !.actualDuration = NULL,
                    !.logs = Append(p.logs, "reset")],
                !.ticks = With(M.ticks, p.id, 0)]
        ELSE M

\* A variant of the pause that leaves the interval of the phase running.
ToggleOne_keepsTimer(M, phaseId, i) ==
    LET p == M.phases[i]
    IN  IF p.id # phaseId THEN M
        ELSE IF p.status = "running" THEN
            [M EXCEPT !.phases[i].status = "paused"]
        ELSE IF p.status \in {"pending", "paused", "failed"} THEN
            LET cleared == ClearRegistered(M.registry, M.active, p.id)
                h == NewHandle(M.registry, cleared)
                progress == IF p.status = "paused" THEN p.progress
                            ELSE FInt(0)
            IN  [M EXCEPT
                    !.active = With(cleared, h,
                        [id |-> p.id,
                         progressIncrement |->
                            ProgressIncrement(p.estimatedDuration)]),
                    !.registry = With(M.registry, p.id, h),
                    !.phases[i] = [p EXCEPT
                        !.status = "running",
                        !.progress = progress,
                        !.logs = Append(p.logs, "started")],
                    !.ticks = With(M.ticks, p.id,
                        IF p.status = "paused" THEN M.ticks[p.id] ELSE 0)]
        ELSE IF p.status = "completed" THEN
            [M EXCEPT
                !.phases[i] = [p EXCEPT
                    !.status = "pending",
                    !.progress = FInt(0),
                    !.actualDuration = NULL,
                    !.logs = <<"reset">>],
                !.ticks = With(M.ticks, p.id, 0)]
        ELSE M

\* A variant of the resume that starts the phase again from progress 0.
ToggleOne_restarts(M, phaseId, i) ==
    LET p == M.phases[i]
    IN  IF p.id # phaseId THEN M
        ELSE IF p.status = "running" THEN
            [M EXCEPT
                !.active = ClearRegistered(M.registry, M.active, p.id),
                !.registry = Without(M.registry, p.id),
                !.phases[i].status = "paused"]
        ELSE IF p.status \in {"pending", "paused", "failed"} THEN
            LET cleared == ClearRegistered(M.registry, M.active, p.id)
                h == NewHandle(M.registry, cleared)
                progress == FInt(0)
            IN  [M EXCEPT
                    !.active = With(cleared, h,
                        [id |-> p.id,
                         progressIncrement |->
                            ProgressIncrement(p.estimatedDuration)]),
                    !.registry = With(M.registry, p.id, h),
                    !.phases[i] = [p EXCEPT
                        !.status = "running",
                        !.progress = progress,
                        !.logs = Append(p.logs, "started")],
                    !.ticks = With(M.ticks, p.id,
                        IF p.status = "paused" THEN M.ticks[p.id] ELSE 0)]
        ELSE IF p.status = "completed" THEN
            [M EXCEPT
                !.phases[i] = [p EXCEPT
                    !.status = "pending",
                    !.progress = FInt(0),
                    !.actualDuration = NULL,
                    !.logs = <<"reset">>],
                !.ticks = With(M.ticks, p.id, 0)]
        ELSE M

\* A variant of the reset that leaves actualDuration as it is.
ToggleOne_resetKeepsDuration(M, phaseId, i) ==
    LET p == M.phases[i]
    IN  IF p.id # phaseId THEN M
        ELSE IF p.status = "running" THEN
            [M EXCEPT
                !.active = ClearRegistered(M.registry, M.active, p.id),
                !.registry = Without(M.registry, p.id),
                !.phases[i].status = "paused"]
        ELSE IF p.status \in {"pending", "paused", "failed"} THEN
            LET cleared == ClearRegistered(M.registry, M.active, p.id)
                h == NewHandle(M.registry, cleared)
                progress == IF p.status = "paused" THEN p.progress
                            ELSE FInt(0)
            IN  [M EXCEPT
                    !.active = With(cleared, h,
                        [id |-> p.id,
                         progressIncrement |->
                            ProgressIncrement(p.estimatedDuration)]),
                    !.registry = With(M.registry, p.id, h),
                    !.phases[i] = [p EXCEPT
                        !.status = "running",
                        !.progress = progress,
                        !.logs = Append(p.logs, "started")],
                    !.ticks = With(M.ticks, p.id,
                        IF p.status = "paused" THEN M.ticks[p.id] ELSE 0)]
        ELSE IF p.status = "completed" THEN
            [M EXCEPT
                !.phases[i] = [p EXCEPT
                    !.status = "pending",
                    !.progress = FInt(0),
                    !.logs = <<"reset">>],
                !.ticks = With(M.ticks, p.id, 0)]
        ELSE M

\* The body of phases.map(...) in togglePhaseExecution for element i.
ToggleOne(M, phaseId, i) ==
    LET p == M.phases[i]
    IN  IF p.id # phaseId THEN M
        ELSE IF p.status = "running" THEN
            [M EXCEPT
                !.active = ClearRegistered(M.registry, M.active, p.id),
                !.registry = Without(M.registry, p.id),
                !.phases[i].status = "paused"]
        ELSE IF p.status \in {"pending", "paused", "failed"} THEN
            LET cleared == ClearRegistered(M.registry, M.active, p.id)
                h == NewHandle(M.registry, cleared)
                progress == IF p.status = "paused" THEN p.progress
                            ELSE FInt(0)
            IN  [M EXCEPT
                    !.active = With(cleared, h,
                        [id |-> p.id,
                         progressIncrement |->
                            ProgressIncrement(p.estimatedDuration)]),
                    !.registry = With(M.registry, p.id, h),
                    !.phases[i] = [p EXCEPT
                        !.status = "running",
                        !.progress = progress,
                        !.logs = Append(p.logs, "started")],
                    !.ticks = With(M.ticks, p.id,
                        IF p.status = "paused" THEN M.ticks[p.id] ELSE 0)]
        ELSE IF p.status = "completed" THEN
            [M EXCEPT
                !.phases[i] = [p EXCEPT
                    !.status = "pending",
                    !.progress = FInt(0),
                    !.actualDuration = NULL,
                    !.logs = <<"reset">>],
                !.ticks = With(M.ticks, p.id, 0)]
        ELSE M

RECURSIVE ToggleMap(_, _, _)
ToggleMap(M, phaseId, i) ==
    IF i > Len(M.phases) THEN M
    ELSE ToggleMap(ToggleOne(M, phaseId, i), phaseId, i + 1)

\* togglePhaseExecution(phaseId)
TogglePhase(M, phaseId) == ToggleMap(M, phaseId, 1)

\* A variant of the callback that marks a phase that reaches 100 as failed.
TickOne_fails(M, c, i) ==
    LET ph == M.phases[i]
        newProgress == FMinInt(100, FAdd(ph.progress, c.progressIncrement))
    IN  IF ph.id = c.id /\ ph.status = "running" THEN
            IF FGeqInt(newProgress, 100) THEN
                [M EXCEPT
                    !.active = ClearRegistered(M.registry, M.active, c.id),
                    !.registry = Without(M.registry, c.id),
                    !.phases[i] = [ph EXCEPT
                        !.progress = FInt(100),
                        !.status = "failed",
                        !.actualDuration = "<duration>s",
                        !.logs = Append(ph.logs, "completed")],
                    !.ticks = With(M.ticks, c.id, M.ticks[c.id] + 1)]
            ELSE
                [M EXCEPT
                    !.phases[i].progress = newProgress,
                    !.ticks = With(M.ticks, c.id, M.ticks[c.id] + 1)]
        ELSE M

\* A variant of the callback that does not look at the phase's status.
TickOne_unguarded(M, c, i) ==
    LET ph == M.phases[i]
        newProgress == FMinInt(100, FAdd(ph.progress, c.progressIncrement))
    IN  IF ph.id = c.id THEN
            IF FGeqInt(newProgress, 100) THEN
                [M EXCEPT
                    !.active = ClearRegistered(M.registry, M.active, c.id),
                    !.registry = Without(M.registry, c.id),
                    !.phases[i] = [ph EXCEPT
                        !.progress = FInt(100),
                        !.status = "completed",
                        !.actualDuration = "<duration>s",
                        !.logs = Append(ph.logs, "completed")],
                    !.ticks = With(M.ticks, c.id, M.ticks[c.id] + 1)]
            ELSE
                [M EXCEPT
                    !.phases[i].progress = newProgress,
                    !.ticks = With(M.ticks, c.id, M.ticks[c.id] + 1)]
        ELSE M

\* A variant of the callback that, at 100, clears the interval and leaves
\* the status as it is.
TickOne_staysRunning(M, c, i) ==
    LET ph == M.phases[i]
        newProgress == FMinInt(100, FAdd(ph.progress, c.progressIncrement))
    IN  IF ph.id = c.id /\ ph.status = "running" THEN
            IF FGeqInt(newProgress, 100) THEN
                [M EXCEPT
                    !.active = ClearRegistered(M.registry, M.active, c.id),
                    !.registry = Without(M.registry, c.id),
                    !.phases[i] = [ph EXCEPT
                        !.progress = FInt(100),
                        !.actualDuration = "<duration>s",
                        !.logs = Append(ph.logs, "completed")],
                    !.ticks = With(M.ticks, c.id, M.ticks[c.id] + 1)]
            ELSE
                [M EXCEPT
                    !.phases[i].progress = newProgress,
                    !.ticks = With(M.ticks, c.id, M.ticks[c.id] + 1)]
        ELSE M

\* A variant of the callback that advances every running phase.
TickOne_everyRunning(M, c, i) ==
    LET ph == M.phases[i]
        newProgress == FMinInt(100, FAdd(ph.progress, c.progressIncrement))
    IN  IF ph.status = "running" THEN
            IF FGeqInt(newProgress, 100) THEN
                [M EXCEPT
                    !.active = ClearRegistered(M.registry, M.active, c.id),
                    !.registry = Without(M.registry, c.id),
                    !.phases[i] = [ph EXCEPT
                        !.progress = FInt(100),
                        !.status = "completed",
                        !.actualDuration = "<duration>s",
                        !.logs = Append(ph.logs, "completed")],
                    !.ticks = With(M.ticks, c.id, M.ticks[c.id] + 1)]
            ELSE
                [M EXCEPT
                    !.phases[i].progress = newProgress,
                    !.ticks = With(M.ticks, c.id, M.ticks[c.id] + 1)]
        ELSE M

\* A variant of the callback that logs every tick.
TickOne_logsProgress(M, c, i) ==
    LET ph == M.phases[i]
        newProgress == FMinInt(100, FAdd(ph.progress, c.progressIncrement))
    IN  IF ph.id = c.id /\ ph.status = "running" THEN
            IF FGeqInt(newProgress, 100) THEN
                [M EXCEPT
                    !.active = ClearRegistered(M.registry, M.active, c.id),
                    !.registry = Without(M.registry, c.id),
                    !.phases[i] = [ph EXCEPT
                        !.progress = FInt(100),
                        !.status = "completed",
                        !.actualDuration = "<duration>s",
                        !.logs = Append(ph.logs, "completed")],
                    !.ticks = With(M.ticks, c.id, M.ticks[c.id] + 1)]
            ELSE
                [M EXCEPT
                    !.phases[i].progress = newProgress,
                    !.phases[i].logs = Append(ph.logs, "progress"),
                    !.ticks = With(M.ticks, c.id, M.ticks[c.id] + 1)]
        ELSE M

\* The body of current.map(...) in the interval callback for element i;
\* c is the callback's closure (p.id and progressIncrement).
TickOne(M, c, i) ==
    LET ph == M.phases[i]
        newProgress == FMinInt(100, FAdd(ph.progress, c.progressIncrement))
    IN  IF ph.id = c.id /\ ph.status = "running" THEN
            IF FGeqInt(newProgress, 100) THEN
                [M EXCEPT
                    !.active = ClearRegistered(M.registry, M.active, c.id),
                    !.registry = Without(M.registry, c.id),
                    !.phases[i] = [ph EXCEPT
                        !.progress = FInt(100),
                        !.status = "completed",
                        !.actualDuration = "<duration>s",
                        !.logs = Append(ph.logs, "completed")],
                    !.ticks = With(M.ticks, c.id, M.ticks[c.id] + 1)]
            ELSE
                [M EXCEPT
                    !.phases[i].progress = newProgress,
                    !.ticks = With(M.ticks, c.id, M.ticks[c.id] + 1)]
        ELSE M

RECURSIVE TickMap(_, _, _)
TickMap(M, c, i) ==
    IF i > Len(M.phases) THEN M
    ELSE TickMap(TickOne(M, c, i), c, i + 1)

\* updatedPhases.find(p => p.id === id)?.status
StatusOf(phases, id) ==
    LET i == FindIndex(phases, id)
    IN  IF i = -1 THEN "undefined" ELSE phases[i + 1].status

\* A variant of the loop that does not await the phase it started.
RECURSIVE RunAllLoop_noAwait(_, _)
RunAllLoop_noAwait(M, rest) ==
    IF rest = <<>> THEN M
    ELSE IF StatusOf(M.phases, Head(rest)) \in {"pending", "failed"}
    THEN RunAllLoop_noAwait(TogglePhase(M, Head(rest)), Tail(rest))
    ELSE RunAllLoop_noAwait(M, Tail(rest))

\* A variant of the loop that reads the pending phases again from the
\* store each time it goes on.
RECURSIVE RunAllLoop_rescan(_, _)
RunAllLoop_rescan(M, rest) ==
    LET pending == SelectSeq(M.phases,
                    LAMBDA p : p.status \in {"pending", "failed"})
    IN  IF rest = <<>> \/ pending = <<>> THEN M
        ELSE
         LET next == Head(pending).id
             M1 == TogglePhase(M, next)
         IN  [M1 EXCEPT !.waiting =
                 Append(@, [phaseId |-> next, rest |-> Tail(rest)])]

\* A variant of the loop that does not read the phase's status again.
RECURSIVE RunAllLoop_noRecheck(_, _)
RunAllLoop_noRecheck(M, rest) ==
    IF rest = <<>> THEN M
    ELSE LET M1 == TogglePhase(M, Head(rest))
         IN  [M1 EXCEPT !.waiting =
                 Append(@, [phaseId |-> Head(rest), rest |-> Tail(rest)])]

\* The for loop of runAllPhases over the rest of its snapshot, up to its
\* next await (the call is then suspended on that phase) or its end.
\* The subscriber registered by the await is called at once with the
\* current phases; the phase was toggled from pending or failed just
\* before, so it is running and the call stays suspended.
RECURSIVE RunAllLoop(_, _)
RunAllLoop(M, rest) ==
    IF rest = <<>> THEN M
    ELSE IF StatusOf(M.phases, Head(rest)) \in {"pending", "failed"} THEN
        LET M1 == TogglePhase(M, Head(rest))
        IN  [M1 EXCEPT !.waiting =
                Append(@, [phaseId |-> Head(rest), rest |-> Tail(rest)])]
    ELSE RunAllLoop(M, Tail(rest))

\* The waiting subscribers see an updated store: each whose phase is now
\* completed or failed unsubscribes and resolves; the resumed calls then
\* continue, in that order, once the handler that made the update is done.
RECURSIVE Resume(_, _)
Resume(M, rests) ==
    IF rests = <<>> THEN M
    ELSE Resume(RunAllLoop(M, Head(rests)), Tail(rests))

Resolved(M, w) == StatusOf(M.phases, w.phaseId) \in {"completed", "failed"}

NotifyWaiting(M) ==
    LET ready == SelectSeq(M.waiting, LAMBDA w : Resolved(M, w))
        still == SelectSeq(M.waiting, LAMBDA w : ~Resolved(M, w))
        rests == [k \in 1..Len(ready) |-> ready[k].rest]
    IN  Resume([M EXCEPT !.waiting = still], rests)

\* The interval callback of the interval with closure c.
IntervalCallback(M, c) == NotifyWaiting(TickMap(M, c, 1))

\* $phases.filter(p => p.status === 'pending' || p.status === 'failed'),
\* of which runAllPhases only reads the ids.
RECURSIVE PendingIds(_)
PendingIds(phases) ==
    IF phases = <<>> THEN <<>>
    ELSE IF Head(phases).status \in {"pending", "failed"}
         THEN <<Head(phases).id>> \o PendingIds(Tail(phases))
         ELSE PendingIds(Tail(phases))

\* runAllPhases(), up to its first await or its end.
RunAll(M) == RunAllLoop(M, PendingIds(M.phases))

\* $phases.reduce((sum, phase) => sum + (phase.progress || 0), 0)
RECURSIVE TotalProgress(_, _, _)
TotalProgress(phases, i, sum) ==
    IF i > Len(phases) THEN sum
    ELSE TotalProgress(phases, i + 1, FAdd(sum, phases[i].progress))

\* A variant that drops the fraction of the quotient (Math.floor).
MathRoundOfQuotient_floor(total, n) == total[1] \div n

\* Math.round(total / n) for a total of 0 or at least 1 and 1 <= n < 8.
\* The exact quotient is <<q0, q1, q2>> + (r2 / n) * 2^-52.  At 1 or above
\* the division rounds it to a double, which Math.round takes to the
\* nearest integer, halves up.  Below 1 the division's result is 0.5 or
\* more exactly when the quotient is no less than 0.5 - 2^-55, the middle
\* between 0.5 and the double before it.
MathRoundOfQuotient(total, n) ==
    LET q0 == total[1] \div n
        r0 == total[1] % n
        q1 == (r0 * Limb + total[2]) \div n
        r1 == (r0 * Limb + total[2]) % n
        q2 == (r1 * Limb + total[3]) \div n
        r2 == (r1 * Limb + total[3]) % n
        avgProgress == RoundNearestEven(q0, q1, q2, r2, n)
    IN  IF q0 >= 1
        THEN IF avgProgress[2] >= Limb \div 2 THEN avgProgress[1] + 1
             ELSE avgProgress[1]
        ELSE IF \/ q1 >= Limb \div 2
                \/ /\ q1 = (Limb \div 2) - 1
                   /\ q2 = Limb - 1
                   /\ 8 * r2 >= 7 * n
             THEN 1 ELSE 0

\* A variant of the count that takes every phase that has left pending.
CompletedCount_started(phases) ==
    Cardinality({i \in 1..Len(phases) : phases[i].status # "pending"})

\* overallExperimentProgress: completedCount, totalCount and isComplete.
CompletedCount(phases) ==
    Cardinality({i \in 1..Len(phases) : phases[i].status = "completed"})

IsComplete(phases) ==
    Len(phases) # 0
    /\ CompletedCount(phases) = Len(phases) /\ Len(phases) > 0

\* The value of the derived store overallExperimentProgress.
overallExperimentProgress(phases) ==
    IF Len(phases) = 0
    THEN [averageProgress |-> 0, completedCount |-> 0, totalCount |-> 0,
          isComplete |-> FALSE]
    ELSE [averageProgress |->
              MathRoundOfQuotient(TotalProgress(phases, 1, FInt(0)),
                                  Len(phases)),
          completedCount |-> CompletedCount(phases),
          totalCount |-> Len(phases),
          isComplete |-> IsComplete(phases)]

SomeRunning(phases) ==
    \E i \in 1..Len(phases) : phases[i].status = "running"

\* The run-all button is rendered for a non-empty canvas, and disabled as
\* the build's template says.
RunAllButtonEnabled(v, phases) ==
    /\ Len(phases) > 0
    /\ IF v = "svelte"
       THEN ~(Len(phases) = 0 \/ IsComplete(phases))
       ELSE ~(SomeRunning(phases) /\ ~IsComplete(phases))


\* ------------------------------------------------------------------------
\* ScienceExperimentWorkbench: reordering
\* ------------------------------------------------------------------------

\* A variant of the update callback that inserts at the index the target
\* had before the removal, without finding the target again.
PhaseDropUpdate_stale(currentPhases, sourcePhaseId, targetPhaseId) ==
    LET sourceIndex == FindIndex(currentPhases, sourcePhaseId)
        targetIndex == FindIndex(currentPhases, targetPhaseId)
        draggedPhase == currentPhases[sourceIndex + 1]
    IN  IF sourceIndex = -1 \/ targetIndex = -1 THEN currentPhases
        ELSE SpliceInsert(SpliceRemove(currentPhases, sourceIndex),
                          targetIndex, draggedPhase)

\* The update callback of handlePhaseDrop, ScienceExperimentWorkbench.svelte.
PhaseDropUpdate_svelte(currentPhases, sourcePhaseId, targetPhaseId) ==
    LET sourceIndex == FindIndex(currentPhases, sourcePhaseId)
        targetIndex == FindIndex(currentPhases, targetPhaseId)
        draggedPhase == currentPhases[sourceIndex + 1]
        spliced == SpliceRemove(currentPhases, sourceIndex)
        newTargetIndex == FindIndex(spliced, targetPhaseId)
    IN  IF sourceIndex = -1 \/ targetIndex = -1 THEN currentPhases
        ELSE IF newTargetIndex # -1
        THEN SpliceInsert(spliced,
                 newTargetIndex + (IF sourceIndex < targetIndex THEN 0 ELSE 0),
                 draggedPhase)
        ELSE Append(spliced, draggedPhase)

\* A variant of the update callback that only checks the target's index:
\* splice(-1, 1) then takes the last phase for the dragged one.
PhaseDropUpdate_unguarded(currentPhases, sourcePhaseId, targetPhaseId) ==
    LET found == FindIndex(currentPhases, sourcePhaseId)
        sourceIndex == IF found = -1 THEN Len(currentPhases) - 1 ELSE found
        targetIndex == FindIndex(currentPhases, targetPhaseId)
        draggedPhase == currentPhases[sourceIndex + 1]
        spliced == SpliceRemove(currentPhases, sourceIndex)
        newTargetActualIndex == FindIndex(spliced, targetPhaseId)
    IN  IF targetIndex = -1 THEN currentPhases
        ELSE IF newTargetActualIndex # -1
        THEN SpliceInsert(spliced, newTargetActualIndex, draggedPhase)
        ELSE Append(spliced, draggedPhase)

\* The update callback of handlePhaseDrop, unnamed/part_000.
PhaseDropUpdate_part000(currentPhases, sourcePhaseId, targetPhaseId) ==
    LET sourceIndex == FindIndex(currentPhases, sourcePhaseId)
        targetIndex == FindIndex(currentPhases, targetPhaseId)
        draggedPhase == currentPhases[sourceIndex + 1]
        spliced == SpliceRemove(currentPhases, sourceIndex)
        newTargetActualIndex == FindIndex(spliced, targetPhaseId)
    IN  IF sourceIndex = -1 \/ targetIndex = -1 THEN currentPhases
        ELSE IF newTargetActualIndex # -1
        THEN SpliceInsert(spliced, newTargetActualIndex, draggedPhase)
        ELSE IF targetIndex > sourceIndex /\ targetIndex = Len(spliced)
        THEN Append(spliced, draggedPhase)
        ELSE IF targetIndex < sourceIndex
        THEN SpliceInsert(spliced, targetIndex, draggedPhase)
        ELSE Append(spliced, draggedPhase)

PhaseDropUpdate(v, currentPhases, sourcePhaseId, targetPhaseId) ==
    IF v = "svelte"
    THEN PhaseDropUpdate_svelte(currentPhases, sourcePhaseId, targetPhaseId)
    ELSE PhaseDropUpdate_part000(currentPhases, sourcePhaseId, targetPhaseId)

\* ------------------------------------------------------------------------
\* ScienceExperimentWorkbench: handlers
\* ------------------------------------------------------------------------

Other == [op |-> "other"]

SetEngine(M) ==
    /\ experimentPhases' = M.phases
    /\ phaseIntervals' = M.registry
    /\ activeIntervals' = M.active
    /\ runAllWaiting' = M.waiting
    /\ tickCount' = M.ticks

engineVars == <<experimentPhases, phaseIntervals, activeIntervals,
                runAllWaiting, tickCount>>

handlePaletteDragStart(blockType) ==
    /\ variant \in Variants /\ ~destroyed
    /\ UNCHANGED notWorkbench
    /\ draggingItem' = [type |-> "paletteItem", id |-> 0, data |-> blockType]
    /\ dragOverCanvas' = FALSE
    /\ dragOverPhaseId' = 0
    /\ lastEvent' = [op |-> "dragStart", session |-> draggingItem.type,
                     hover |-> dragOverPhaseId]
    /\ UNCHANGED <<variant, engineVars, runAllCalls, nextId, destroyed>>

handleCanvasDragEnter ==
    /\ variant \in Variants /\ ~destroyed
    /\ UNCHANGED notWorkbench
    /\ dragOverCanvas' = TRUE
    /\ lastEvent' = Other
    /\ UNCHANGED <<variant, engineVars, draggingItem, dragOverPhaseId,
                   runAllCalls, nextId, destroyed>>

\* The dropEffect it sets on the event is a hint to the host only.
handleCanvasDragOver ==
    /\ variant \in Variants /\ ~destroyed
    /\ UNCHANGED notWorkbench
    /\ dragOverCanvas' = TRUE
    /\ lastEvent' = Other
    /\ UNCHANGED <<variant, engineVars, draggingItem, dragOverPhaseId,
                   runAllCalls, nextId, destroyed>>

\* targetIsCanvas: event.currentTarget === event.target
handleCanvasDragLeave(targetIsCanvas) ==
    /\ variant \in Variants /\ ~destroyed
    /\ UNCHANGED notWorkbench
    /\ dragOverCanvas' = IF targetIsCanvas THEN FALSE ELSE dragOverCanvas
    /\ lastEvent' = Other
    /\ UNCHANGED <<variant, engineVars, draggingItem, dragOverPhaseId,
                   runAllCalls, nextId, destroyed>>

\* A variant that builds the phase already running.
NewPhase_running(id, block) ==
    [id |-> id,
     type |-> block.type,
     label |-> block.label,
     text |-> IF block.defaultText # "" THEN block.defaultText
              ELSE <<"New ", block.label, " Phase">>,
     status |-> "running",
     progress |-> FInt(0),
     estimatedDuration |-> IF block.estimatedDuration # 0
                           THEN block.estimatedDuration ELSE 10,
     actualDuration |-> NULL,
     logs |-> <<>>,
     canBeRun |-> TRUE]

\* The phase handleCanvasDrop builds from a palette block.
NewPhase(id, block) ==
    [id |-> id,
     type |-> block.type,
     label |-> block.label,
     text |-> IF block.defaultText # "" THEN block.defaultText
              ELSE <<"New ", block.label, " Phase">>,
     status |-> "pending",
     progress |-> FInt(0),
     estimatedDuration |-> IF block.estimatedDuration # 0
                           THEN block.estimatedDuration ELSE 10,
     actualDuration |-> NULL,
     logs |-> <<>>,
     canBeRun |-> TRUE]

\* A variant that leaves the canvas marked as dragged over.
handleCanvasDrop_keepsMark ==
    /\ variant \in Variants /\ ~destroyed
    /\ UNCHANGED notWorkbench
    /\ IF draggingItem.type = "paletteItem"
       THEN /\ nextId <= MaxPhases
            /\ experimentPhases' =
                   Append(experimentPhases, NewPhase(nextId, draggingItem.data))
            /\ tickCount' = With(tickCount, nextId, 0)
            /\ nextId' = nextId + 1
            /\ lastEvent' = [op |-> "append", pre |-> experimentPhases]
       ELSE /\ UNCHANGED <<experimentPhases, tickCount, nextId>>
            /\ lastEvent' = [op |-> "handleCanvasDrop",
                             session |-> draggingItem.type]
    /\ UNCHANGED dragOverCanvas
    /\ UNCHANGED <<variant, draggingItem, dragOverPhaseId, phaseIntervals,
                   activeIntervals, runAllWaiting, runAllCalls, destroyed>>

handleCanvasDrop ==
    /\ variant \in Variants /\ ~destroyed
    /\ UNCHANGED notWorkbench
    /\ IF draggingItem.type = "paletteItem"
       THEN /\ nextId <= MaxPhases
            /\ experimentPhases' =
                   Append(experimentPhases, NewPhase(nextId, draggingItem.data))
            /\ tickCount' = With(tickCount, nextId, 0)
            /\ nextId' = nextId + 1
            /\ lastEvent' = [op |-> "append", pre |-> experimentPhases]
       ELSE /\ UNCHANGED <<experimentPhases, tickCount, nextId>>
            /\ lastEvent' = [op |-> "handleCanvasDrop",
                             session |-> draggingItem.type]
    /\ dragOverCanvas' = FALSE
    /\ UNCHANGED <<variant, draggingItem, dragOverPhaseId, phaseIntervals,
                   activeIntervals, runAllWaiting, runAllCalls, destroyed>>

\* A variant of the drag-start that leaves the mark of the hovered phase.
handlePhaseDragStart_keepsHover(phase) ==
    /\ variant \in Variants /\ ~destroyed
    /\ UNCHANGED notWorkbench
    /\ draggingItem' = [type |-> "workflowItem", id |-> phase.id, data |-> phase]
    /\ lastEvent' = [op |-> "dragStart", session |-> draggingItem.type,
                     hover |-> dragOverPhaseId]
    /\ UNCHANGED <<variant, engineVars, dragOverCanvas, dragOverPhaseId,
                   runAllCalls, nextId,
                   destroyed>>

\* A variant of the enter that marks the phase whatever is dragged.
handlePhaseDragEnter_any(targetPhaseId) ==
    /\ variant \in Variants /\ ~destroyed
    /\ UNCHANGED notWorkbench
    /\ dragOverPhaseId' = targetPhaseId
    /\ lastEvent' = Other
    /\ UNCHANGED <<variant, engineVars, draggingItem, dragOverCanvas,
                   runAllCalls, nextId, destroyed>>

handlePhaseDragStart(phase) ==
    /\ variant \in Variants /\ ~destroyed
    /\ UNCHANGED notWorkbench
    /\ draggingItem' = [type |-> "workflowItem", id |-> phase.id, data |-> phase]
    /\ dragOverPhaseId' = 0
    /\ lastEvent' = [op |-> "dragStart", session |-> draggingItem.type,
                     hover |-> dragOverPhaseId]
    /\ UNCHANGED <<variant, engineVars, dragOverCanvas, runAllCalls, nextId,
                   destroyed>>

handlePhaseDragEnter(targetPhaseId) ==
    /\ variant \in Variants /\ ~destroyed
    /\ UNCHANGED notWorkbench
    /\ dragOverPhaseId' =
           IF draggingItem.type = "workflowItem"
              /\ draggingItem.id # targetPhaseId
           THEN targetPhaseId ELSE dragOverPhaseId
    /\ lastEvent' = Other
    /\ UNCHANGED <<variant, engineVars, draggingItem, dragOverCanvas,
                   runAllCalls, nextId, destroyed>>

\* A variant of the leave that clears the mark whichever phase is left.
handlePhaseDragLeave_always(targetPhaseId) ==
    /\ variant \in Variants /\ ~destroyed
    /\ UNCHANGED notWorkbench
    /\ dragOverPhaseId' = 0
    /\ lastEvent' = [op |-> "handlePhaseDragLeave", target |-> targetPhaseId]
    /\ UNCHANGED <<variant, engineVars, draggingItem, dragOverCanvas,
                   runAllCalls, nextId, destroyed>>

\* It only sets the dropEffect hint on the event.
handlePhaseDragOver ==
    /\ variant \in Variants /\ ~destroyed
    /\ UNCHANGED notWorkbench
    /\ lastEvent' = Other
    /\ UNCHANGED <<variant, engineVars, draggingItem, dragOverCanvas,
                   dragOverPhaseId, runAllCalls, nextId, destroyed>>

handlePhaseDragLeave(targetPhaseId) ==
    /\ variant \in Variants /\ ~destroyed
    /\ UNCHANGED notWorkbench
    /\ dragOverPhaseId' =
           IF dragOverPhaseId = targetPhaseId THEN 0 ELSE dragOverPhaseId
    /\ lastEvent' = [op |-> "handlePhaseDragLeave", target |-> targetPhaseId]
    /\ UNCHANGED <<variant, engineVars, draggingItem, dragOverCanvas,
                   runAllCalls, nextId, destroyed>>

\* A variant of the drop that puts the phase back as it was when the drag
\* began.
handlePhaseDrop_stale(targetPhaseId) ==
    /\ variant \in Variants /\ ~destroyed
    /\ UNCHANGED notWorkbench
    /\ IF draggingItem.type # "workflowItem" \/ draggingItem.id = 0
       THEN /\ UNCHANGED <<experimentPhases, dragOverPhaseId>>
            /\ lastEvent' = [op |-> "handlePhaseDrop", source |-> 0,
                             target |-> targetPhaseId,
                             pre |-> experimentPhases]
       ELSE /\ experimentPhases' =
                   IF draggingItem.id = targetPhaseId THEN experimentPhases
                   ELSE LET moved == PhaseDropUpdate(variant, experimentPhases,
                                               draggingItem.id, targetPhaseId)
                        IN  [k \in 1..Len(moved) |->
                                IF moved[k].id = draggingItem.id
                                THEN draggingItem.data ELSE moved[k]]
            /\ dragOverPhaseId' = 0
            /\ lastEvent' = [op |-> "handlePhaseDrop",
                             source |-> draggingItem.id,
                             target |-> targetPhaseId,
                             pre |-> experimentPhases]
    /\ UNCHANGED <<variant, draggingItem, dragOverCanvas, phaseIntervals,
                   activeIntervals, runAllWaiting, runAllCalls, nextId,
                   tickCount, destroyed>>

\* A variant of the drop that clears the interval of the dragged phase.
handlePhaseDrop_stopsTimer(targetPhaseId) ==
    /\ variant \in Variants /\ ~destroyed
    /\ UNCHANGED notWorkbench
    /\ IF draggingItem.type # "workflowItem" \/ draggingItem.id = 0
       THEN /\ UNCHANGED <<experimentPhases, dragOverPhaseId>>
            /\ lastEvent' = [op |-> "handlePhaseDrop", source |-> 0,
                             target |-> targetPhaseId,
                             pre |-> experimentPhases]
       ELSE /\ experimentPhases' =
                   IF draggingItem.id = targetPhaseId THEN experimentPhases
                   ELSE PhaseDropUpdate(variant, experimentPhases,
                                        draggingItem.id, targetPhaseId)
            /\ dragOverPhaseId' = 0
            /\ lastEvent' = [op |-> "handlePhaseDrop",
                             source |-> draggingItem.id,
                             target |-> targetPhaseId,
                             pre |-> experimentPhases]
    /\ IF draggingItem.type = "workflowItem"
       THEN /\ activeIntervals' = ClearRegistered(phaseIntervals,
                   activeIntervals, draggingItem.id)
            /\ phaseIntervals' = Without(phaseIntervals, draggingItem.id)
       ELSE UNCHANGED <<phaseIntervals, activeIntervals>>
    /\ UNCHANGED <<variant, draggingItem, dragOverCanvas, runAllWaiting,
                   runAllCalls, nextId, tickCount, destroyed>>

\* A variant that takes a palette item dropped on a phase as dropped on
\* the canvas.
handlePhaseDrop_bubbles(targetPhaseId) ==
    /\ variant \in Variants /\ ~destroyed
    /\ UNCHANGED notWorkbench
    /\ IF draggingItem.type # "workflowItem" \/ draggingItem.id = 0
       THEN /\ experimentPhases' =
                   IF draggingItem.type = "paletteItem"
                   THEN Append(experimentPhases,
                               NewPhase(nextId, draggingItem.data))
                   ELSE experimentPhases
            /\ UNCHANGED dragOverPhaseId
            /\ lastEvent' = [op |-> "handlePhaseDrop", source |-> 0,
                             target |-> targetPhaseId,
                             pre |-> experimentPhases]
       ELSE /\ experimentPhases' =
                   IF draggingItem.id = targetPhaseId THEN experimentPhases
                   ELSE PhaseDropUpdate(variant, experimentPhases,
                                        draggingItem.id, targetPhaseId)
            /\ dragOverPhaseId' = 0
            /\ lastEvent' = [op |-> "handlePhaseDrop",
                             source |-> draggingItem.id,
                             target |-> targetPhaseId,
                             pre |-> experimentPhases]
    /\ UNCHANGED <<variant, draggingItem, dragOverCanvas, phaseIntervals,
                   activeIntervals, runAllWaiting, runAllCalls, nextId,
                   tickCount, destroyed>>

handlePhaseDrop(targetPhaseId) ==
    /\ variant \in Variants /\ ~destroyed
    /\ UNCHANGED notWorkbench
    /\ IF draggingItem.type # "workflowItem" \/ draggingItem.id = 0
       THEN /\ UNCHANGED <<experimentPhases, dragOverPhaseId>>
            /\ lastEvent' = [op |-> "handlePhaseDrop", source |-> 0,
                             target |-> targetPhaseId,
                             pre |-> experimentPhases]
       ELSE /\ experimentPhases' =
                   IF draggingItem.id = targetPhaseId THEN experimentPhases
                   ELSE PhaseDropUpdate(variant, experimentPhases,
                                        draggingItem.id, targetPhaseId)
            /\ dragOverPhaseId' = 0
            /\ lastEvent' = [op |-> "handlePhaseDrop",
                             source |-> draggingItem.id,
                             target |-> targetPhaseId,
                             pre |-> experimentPhases]
    /\ UNCHANGED <<variant, draggingItem, dragOverCanvas, phaseIntervals,
                   activeIntervals, runAllWaiting, runAllCalls, nextId,
                   tickCount, destroyed>>

\* A variant that leaves the hovered phase marked.
handleDragEnd_keepsHover ==
    /\ variant \in Variants /\ ~destroyed
    /\ UNCHANGED notWorkbench
    /\ draggingItem' = NoDrag
    /\ dragOverCanvas' = FALSE
    /\ UNCHANGED dragOverPhaseId
    /\ lastEvent' = [op |-> "handleDragEnd", session |-> draggingItem.type]
    /\ UNCHANGED <<variant, engineVars, runAllCalls, nextId, destroyed>>

handleDragEnd ==
    /\ variant \in Variants /\ ~destroyed
    /\ UNCHANGED notWorkbench
    /\ draggingItem' = NoDrag
    /\ dragOverCanvas' = FALSE
    /\ dragOverPhaseId' = 0
    /\ lastEvent' = [op |-> "handleDragEnd", session |-> draggingItem.type]
    /\ UNCHANGED <<variant, engineVars, runAllCalls, nextId, destroyed>>

\* A variant of removePhase that forgets the interval without clearing it.
RemovePhase_noClear(M, phaseId) ==
    [M EXCEPT
        !.phases = FilterOut(M.phases, phaseId),
        !.registry = Without(M.registry, phaseId),
        !.ticks = Without(M.ticks, phaseId)]

\* A variant of removePhase that clears the interval and keeps its entry.
RemovePhase_noDelete(M, phaseId) ==
    [M EXCEPT
        !.phases = FilterOut(M.phases, phaseId),
        !.active = ClearRegistered(M.registry, M.active, phaseId),
        !.ticks = Without(M.ticks, phaseId)]

\* A variant of removePhase that does nothing while a runAllPhases call
\* is suspended.
RemovePhase_blocked(M, phaseId) ==
    IF M.waiting # <<>> THEN M
    ELSE [M EXCEPT
        !.phases = FilterOut(M.phases, phaseId),
        !.active = ClearRegistered(M.registry, M.active, phaseId),
        !.registry = Without(M.registry, phaseId),
        !.ticks = Without(M.ticks, phaseId)]

\* removePhase(phaseId): the store is filtered, then the interval cleared.
RemovePhase(M, phaseId) ==
    [M EXCEPT
        !.phases = FilterOut(M.phases, phaseId),
        !.active = ClearRegistered(M.registry, M.active, phaseId),
        !.registry = Without(M.registry, phaseId),
        !.ticks = Without(M.ticks, phaseId)]

removePhase(phaseId) ==
    /\ variant \in Variants /\ ~destroyed
    /\ UNCHANGED notWorkbench
    /\ SetEngine(RemovePhase(Engine, phaseId))
    /\ lastEvent' = [op |-> "removePhase", id |-> phaseId,
                     status |-> StatusOf(experimentPhases, phaseId)]
    /\ UNCHANGED <<variant, draggingItem, dragOverCanvas, dragOverPhaseId,
                   runAllCalls, nextId, destroyed>>

updatePhaseText(phaseId, newText) ==
    /\ variant \in Variants /\ ~destroyed
    /\ UNCHANGED notWorkbench
    /\ experimentPhases' =
           [i \in 1..Len(experimentPhases) |->
               IF experimentPhases[i].id = phaseId
               THEN [experimentPhases[i] EXCEPT !.text = newText]
               ELSE experimentPhases[i]]
    /\ lastEvent' = Other
    /\ UNCHANGED <<variant, draggingItem, dragOverCanvas, dragOverPhaseId,
                   phaseIntervals, activeIntervals, runAllWaiting,
                   runAllCalls, nextId, tickCount, destroyed>>

\* A click on a phase's run button.  Starting or resuming appends to the
\* log, so the model stops doing it once the log has MaxLog entries.
togglePhaseExecution(phaseId) ==
    /\ variant \in Variants /\ ~destroyed
    /\ UNCHANGED notWorkbench
    /\ LET st == StatusOf(experimentPhases, phaseId)
           p  == experimentPhases[FindIndex(experimentPhases, phaseId) + 1]
       IN  st \in {"pending", "paused", "failed"} => Len(p.logs) < MaxLog
    /\ SetEngine(TogglePhase(Engine, phaseId))
    /\ lastEvent' = Other
    /\ UNCHANGED <<variant, draggingItem, dragOverCanvas, dragOverPhaseId,
                   runAllCalls, nextId, destroyed>>

\* The host fires live interval h.
Tick(h) ==
    /\ h \in DOMAIN activeIntervals
    /\ UNCHANGED notWorkbench
    /\ SetEngine(IntervalCallback(Engine, activeIntervals[h]))
    /\ lastEvent' = Other
    /\ UNCHANGED <<variant, draggingItem, dragOverCanvas, dragOverPhaseId,
                   runAllCalls, nextId, destroyed>>

\* A click on the run-all button.
runAllPhases ==
    /\ variant \in Variants /\ ~destroyed
    /\ UNCHANGED notWorkbench
    /\ RunAllButtonEnabled(variant, experimentPhases)
    /\ SetEngine(RunAll(Engine))
    /\ runAllCalls' = runAllCalls + 1
    /\ lastEvent' = Other
    /\ UNCHANGED <<variant, draggingItem, dragOverCanvas, dragOverPhaseId,
                   nextId, destroyed>>

\* A variant of the teardown that empties the registry and clears nothing.
onDestroy_forgets ==
    /\ variant \in Variants /\ ~destroyed
    /\ UNCHANGED notWorkbench
    /\ activeIntervals' = activeIntervals
    /\ phaseIntervals' = <<>>
    /\ destroyed' = TRUE
    /\ lastEvent' = Other
    /\ UNCHANGED <<variant, experimentPhases, draggingItem, dragOverCanvas,
                   dragOverPhaseId, runAllWaiting, runAllCalls, nextId,
                   tickCount>>

\* onDestroy: every registered interval is cleared, the registry reset.
RECURSIVE ClearAll(_, _)
ClearAll(active, handles) ==
    IF handles = {} THEN active
    ELSE LET h == CHOOSE x \in handles : TRUE
         IN  ClearAll(ClearInterval(active, h), handles \ {h})

onDestroy ==
    /\ variant \in Variants /\ ~destroyed
    /\ UNCHANGED notWorkbench
    /\ activeIntervals' = ClearAll(activeIntervals,
           {phaseIntervals[k] : k \in DOMAIN phaseIntervals})
    /\ phaseIntervals' = <<>>
    /\ destroyed' = TRUE
    /\ lastEvent' = Other
    /\ UNCHANGED <<variant, experimentPhases, draggingItem, dragOverCanvas,
                   dragOverPhaseId, runAllWaiting, runAllCalls, nextId,
                   tickCount>>


\* ------------------------------------------------------------------------
\* WorkflowBuilder, first component: palette, canvas and reordering
\* ------------------------------------------------------------------------

\* Steps ever dropped on the workflow canvas; ids are 1..MaxSteps.
MaxSteps == 3

wfPaletteBlocks == <<
    [type |-> "LOAD_DATA", label |-> "Load Data",
     defaultText |-> "Load Data from Source"],
    [type |-> "TRANSFORM_DATA", label |-> "Transform Data",
     defaultText |-> "Apply Transformation"],
    [type |-> "RUN_MODEL", label |-> "Run Model",
     defaultText |-> "Execute ML Model"],
    [type |-> "SEND_NOTIFICATION", label |-> "Send Notification",
     defaultText |-> "Notify Stakeholders"],
    [type |-> "SAVE_OUTPUT", label |-> "Save Output",
     defaultText |-> "Save Results"] >>

\* Everything outside the first component, the event record aside.
notWorkflow == <<wbState, listVars>>

wf_handlePaletteDragStart(blockType) ==
    /\ variant = "WorkflowBuilder"
    /\ wfDraggingItem' = [type |-> "paletteItem", id |-> 0, data |-> blockType]
    /\ wfDragOverCanvas' = FALSE
    /\ dragOverWorkflowItemId' = 0
    /\ lastEvent' = Other
    /\ UNCHANGED <<workflowSteps, wfNextId, notWorkflow>>

wf_handleCanvasDragEnter ==
    /\ variant = "WorkflowBuilder"
    /\ wfDragOverCanvas' = TRUE
    /\ lastEvent' = Other
    /\ UNCHANGED <<workflowSteps, wfDraggingItem, dragOverWorkflowItemId,
                   wfNextId, notWorkflow>>

wf_handleCanvasDragOver ==
    /\ variant = "WorkflowBuilder"
    /\ wfDragOverCanvas' = TRUE
    /\ lastEvent' = Other
    /\ UNCHANGED <<workflowSteps, wfDraggingItem, dragOverWorkflowItemId,
                   wfNextId, notWorkflow>>

wf_handleCanvasDragLeave(targetIsCanvas) ==
    /\ variant = "WorkflowBuilder"
    /\ wfDragOverCanvas' = IF targetIsCanvas THEN FALSE ELSE wfDragOverCanvas
    /\ lastEvent' = Other
    /\ UNCHANGED <<workflowSteps, wfDraggingItem, dragOverWorkflowItemId,
                   wfNextId, notWorkflow>>

\* The step handleCanvasDrop builds from a palette block.
NewStep(id, block) ==
    [id |-> id,
     type |-> block.type,
     label |-> block.label,
     text |-> IF block.defaultText # "" THEN block.defaultText
              ELSE <<"New ", block.label, " Step">>]

wf_handleCanvasDrop ==
    /\ variant = "WorkflowBuilder"
    /\ IF wfDraggingItem.type = "paletteItem"
       THEN /\ wfNextId <= MaxSteps
            /\ workflowSteps' =
                   Append(workflowSteps, NewStep(wfNextId, wfDraggingItem.data))
            /\ wfNextId' = wfNextId + 1
            /\ lastEvent' = [op |-> "wf_append", pre |-> workflowSteps]
       ELSE /\ UNCHANGED <<workflowSteps, wfNextId>>
            /\ lastEvent' = [op |-> "wf_handleCanvasDrop",
                             session |-> wfDraggingItem.type]
    /\ wfDragOverCanvas' = FALSE
    /\ UNCHANGED <<wfDraggingItem, dragOverWorkflowItemId, notWorkflow>>

handleWorkflowItemDragStart(item) ==
    /\ variant = "WorkflowBuilder"
    /\ wfDraggingItem' = [type |-> "workflowItem", id |-> item.id, data |-> item]
    /\ dragOverWorkflowItemId' = 0
    /\ lastEvent' = Other
    /\ UNCHANGED <<workflowSteps, wfDragOverCanvas, wfNextId, notWorkflow>>

handleWorkflowItemDragEnter(targetItemId) ==
    /\ variant = "WorkflowBuilder"
    /\ dragOverWorkflowItemId' =
           IF wfDraggingItem.type = "workflowItem"
              /\ wfDraggingItem.id # targetItemId
           THEN targetItemId ELSE dragOverWorkflowItemId
    /\ lastEvent' = Other
    /\ UNCHANGED <<workflowSteps, wfDraggingItem, wfDragOverCanvas, wfNextId,
                   notWorkflow>>

\* It only sets the dropEffect hint on the event.
handleWorkflowItemDragOver ==
    /\ variant = "WorkflowBuilder"
    /\ lastEvent' = Other
    /\ UNCHANGED <<wfVars, notWorkflow>>

handleWorkflowItemDragLeave(targetItemId) ==
    /\ variant = "WorkflowBuilder"
    /\ dragOverWorkflowItemId' =
           IF dragOverWorkflowItemId = targetItemId THEN 0
           ELSE dragOverWorkflowItemId
    /\ lastEvent' = Other
    /\ UNCHANGED <<workflowSteps, wfDraggingItem, wfDragOverCanvas, wfNextId,
                   notWorkflow>>

\* The update callback of handleWorkflowItemDrop: the dragged step is
\* removed, then inserted at the index the target had before the removal.
WorkflowItemDropUpdate(currentSteps, sourceItemId, targetItemId) ==
    LET sourceIndex == FindIndex(currentSteps, sourceItemId)
        targetIndex == FindIndex(currentSteps, targetItemId)
        draggedStep == currentSteps[sourceIndex + 1]
    IN  IF sourceIndex = -1 \/ targetIndex = -1 THEN currentSteps
        ELSE SpliceInsert(SpliceRemove(currentSteps, sourceIndex),
                          targetIndex, draggedStep)

handleWorkflowItemDrop(targetItemId) ==
    /\ variant = "WorkflowBuilder"
    /\ IF wfDraggingItem.type # "workflowItem" \/ wfDraggingItem.id = 0
       THEN /\ UNCHANGED <<workflowSteps, dragOverWorkflowItemId>>
            /\ lastEvent' = [op |-> "handleWorkflowItemDrop", source |-> 0,
                             target |-> targetItemId, pre |-> workflowSteps]
       ELSE /\ workflowSteps' =
                   IF wfDraggingItem.id = targetItemId THEN workflowSteps
                   ELSE WorkflowItemDropUpdate(workflowSteps,
                                               wfDraggingItem.id, targetItemId)
            /\ dragOverWorkflowItemId' = 0
            /\ lastEvent' = [op |-> "handleWorkflowItemDrop",
                             source |-> wfDraggingItem.id,
                             target |-> targetItemId, pre |-> workflowSteps]
    /\ UNCHANGED <<wfDraggingItem, wfDragOverCanvas, wfNextId, notWorkflow>>

wf_handleDragEnd ==
    /\ variant = "WorkflowBuilder"
    /\ wfDraggingItem' = NoDrag
    /\ wfDragOverCanvas' = FALSE
    /\ dragOverWorkflowItemId' = 0
    /\ lastEvent' = [op |-> "wf_handleDragEnd",
                     session |-> wfDraggingItem.type]
    /\ UNCHANGED <<workflowSteps, wfNextId, notWorkflow>>

removeStep(stepId) ==
    /\ variant = "WorkflowBuilder"
    /\ workflowSteps' = FilterOut(workflowSteps, stepId)
    /\ lastEvent' = [op |-> "removeStep", id |-> stepId]
    /\ UNCHANGED <<wfDraggingItem, wfDragOverCanvas, dragOverWorkflowItemId,
                   wfNextId, notWorkflow>>

updateStepText(stepId, newText) ==
    /\ variant = "WorkflowBuilder"
    /\ workflowSteps' =
           [i \in 1..Len(workflowSteps) |->
               IF workflowSteps[i].id = stepId
               THEN [workflowSteps[i] EXCEPT !.text = newText]
               ELSE workflowSteps[i]]
    /\ lastEvent' = Other
    /\ UNCHANGED <<wfDraggingItem, wfDragOverCanvas, dragOverWorkflowItemId,
                   wfNextId, notWorkflow>>

WorkflowInit ==
    /\ workflowSteps = <<>>
    /\ wfDraggingItem = NoDrag
    /\ wfDragOverCanvas = FALSE
    /\ dragOverWorkflowItemId = 0
    /\ wfNextId = 1

\* ------------------------------------------------------------------------
\* WorkflowBuilder, second component: the draggable list
\* ------------------------------------------------------------------------

\* color is display data no handler reads; it is left out, as is the
\* emoji each text begins with.
initialItems == <<
    [id |-> 1, text |-> "Apple (Drag me!)"],
    [id |-> 2, text |-> "Banana (Drag me!)"],
    [id |-> 3, text |-> "Grapes (Drag me!)"],
    [id |-> 4, text |-> "Strawberry (Drag me!)"],
    [id |-> 5, text |-> "Kiwi (Drag me!)"],
    [id |-> 6, text |-> "Orange (Drag me!)"] >>

\* Everything outside the second component, the event record aside.
notList == <<wbState, wfVars>>

handleDragStart(itemId) ==
    /\ variant = "DraggableList"
    /\ draggingItemId' = itemId
    /\ dragOverItemId' = 0
    /\ lastEvent' = Other
    /\ UNCHANGED <<items, notList>>

handleDragEnter(targetItemId) ==
    /\ variant = "DraggableList"
    /\ dragOverItemId' =
           IF draggingItemId # targetItemId THEN targetItemId
           ELSE dragOverItemId
    /\ lastEvent' = Other
    /\ UNCHANGED <<items, draggingItemId, notList>>

\* It only sets the dropEffect hint on the event.
handleDragOver ==
    /\ variant = "DraggableList"
    /\ lastEvent' = Other
    /\ UNCHANGED <<listVars, notList>>

handleDragLeave(targetItemId) ==
    /\ variant = "DraggableList"
    /\ dragOverItemId' =
           IF dragOverItemId = targetItemId THEN 0 ELSE dragOverItemId
    /\ lastEvent' = Other
    /\ UNCHANGED <<items, draggingItemId, notList>>

\* The update callback of handleDrop: as in the first component, the
\* dragged item goes to the index the target had before the removal.
DropUpdate(currentItems, sourceItemId, targetItemId) ==
    LET sourceIndex == FindIndex(currentItems, sourceItemId)
        targetIndex == FindIndex(currentItems, targetItemId)
        draggedItem == currentItems[sourceIndex + 1]
    IN  IF sourceIndex = -1 \/ targetIndex = -1 THEN currentItems
        ELSE SpliceInsert(SpliceRemove(currentItems, sourceIndex),
                          targetIndex, draggedItem)

handleDrop(targetItemId) ==
    /\ variant = "DraggableList"
    /\ items' =
           IF draggingItemId = targetItemId \/ draggingItemId = 0 THEN items
           ELSE DropUpdate(items, draggingItemId, targetItemId)
    /\ draggingItemId' = 0
    /\ dragOverItemId' = 0
    /\ lastEvent' = [op |-> "handleDrop", source |-> draggingItemId,
                     target |-> targetItemId, pre |-> items]
    /\ UNCHANGED notList

list_handleDragEnd ==
    /\ variant = "DraggableList"
    /\ draggingItemId' = 0
    /\ dragOverItemId' = 0
    /\ lastEvent' = Other
    /\ UNCHANGED <<items, notList>>

ListInit ==
    /\ items = initialItems
    /\ draggingItemId = 0
    /\ dragOverItemId = 0


\* ------------------------------------------------------------------------
\* The state machines.
\* A page mounts one component, and variant names it: a build of the
\* workbench, the workflow builder or the draggable list.  Only the
\* mounted component's handlers run.
\* ------------------------------------------------------------------------

Components == Variants \cup {"WorkflowBuilder", "DraggableList"}

WorkbenchInit ==
    /\ experimentPhases = <<>>
    /\ draggingItem = NoDrag
    /\ dragOverCanvas = FALSE
    /\ dragOverPhaseId = 0
    /\ phaseIntervals = <<>>
    /\ activeIntervals = <<>>
    /\ runAllWaiting = <<>>
    /\ runAllCalls = 0
    /\ nextId = 1
    /\ tickCount = <<>>
    /\ destroyed = FALSE

Rendered == IdsOf(experimentPhases)

\* What the user types into a text box.
Texts == {"edited"}

\* The palette block with the shortest estimate.
ShortBlock == paletteBlocks[4]

\* Drag gestures on the workbench.
DragEvents ==
    \/ handlePaletteDragStart(ShortBlock)
    \/ handleCanvasDragEnter
    \/ handleCanvasDragOver
    \/ \E targetIsCanvas \in BOOLEAN : handleCanvasDragLeave(targetIsCanvas)
    \/ handleCanvasDrop
    \/ \E i \in 1..Len(experimentPhases) :
           handlePhaseDragStart(experimentPhases[i])
    \/ \E t \in Rendered : handlePhaseDragEnter(t)
    \/ handlePhaseDragOver
    \/ \E t \in Rendered : handlePhaseDragLeave(t)
    \/ \E t \in Rendered : handlePhaseDrop(t)
    \/ handleDragEnd
    \/ \E id \in Rendered : removePhase(id)
    \/ \E id \in Rendered : \E newText \in Texts : updatePhaseText(id, newText)

\* Gestures on the workflow builder.
WorkflowEvents ==
    \/ wf_handlePaletteDragStart(wfPaletteBlocks[1])
    \/ wf_handleCanvasDragEnter
    \/ wf_handleCanvasDragOver
    \/ \E targetIsCanvas \in BOOLEAN : wf_handleCanvasDragLeave(targetIsCanvas)
    \/ wf_handleCanvasDrop
    \/ \E i \in 1..Len(workflowSteps) :
           handleWorkflowItemDragStart(workflowSteps[i])
    \/ \E t \in IdsOf(workflowSteps) : handleWorkflowItemDragEnter(t)
    \/ handleWorkflowItemDragOver
    \/ \E t \in IdsOf(workflowSteps) : handleWorkflowItemDragLeave(t)
    \/ \E t \in IdsOf(workflowSteps) : handleWorkflowItemDrop(t)
    \/ wf_handleDragEnd
    \/ \E id \in IdsOf(workflowSteps) : removeStep(id)
    \/ \E id \in IdsOf(workflowSteps) : \E newText \in Texts :
           updateStepText(id, newText)

\* Gestures on the draggable list.
ListEvents ==
    \/ \E id \in IdsOf(items) : handleDragStart(id)
    \/ \E t \in IdsOf(items) : handleDragEnter(t)
    \/ handleDragOver
    \/ \E t \in IdsOf(items) : handleDragLeave(t)
    \/ \E t \in IdsOf(items) : handleDrop(t)
    \/ list_handleDragEnd

\* Dragging, dropping and removing, in whichever component is mounted.
DragInit ==
    /\ variant \in Components
    /\ WorkbenchInit /\ WorkflowInit /\ ListInit
    /\ lastEvent = Other

DragNext == DragEvents \/ WorkflowEvents \/ ListEvents

SpecDrag == DragInit /\ [][DragNext]_vars

\* The canvas after one palette block after another of blocks was dropped
\* on it, and the workbench showing it with no drag under way.
CanvasOf(blocks) == [i \in 1..Len(blocks) |-> NewPhase(i, blocks[i])]

WorkbenchWith(blocks) ==
    /\ experimentPhases = CanvasOf(blocks)
    /\ nextId = Len(blocks) + 1
    /\ tickCount = [i \in 1..Len(blocks) |-> 0]
    /\ draggingItem = NoDrag
    /\ dragOverCanvas = FALSE
    /\ dragOverPhaseId = 0
    /\ phaseIntervals = <<>>
    /\ activeIntervals = <<>>
    /\ runAllWaiting = <<>>
    /\ runAllCalls = 0
    /\ destroyed = FALSE

\* One phase of any palette block, run, paused, resumed and reset by hand.
TicksInit ==
    /\ variant \in Variants
    /\ \E b \in PaletteSet : WorkbenchWith(<<b>>)
    /\ WorkflowInit /\ ListInit
    /\ lastEvent = Other

TicksNext ==
    \/ \E id \in Rendered : togglePhaseExecution(id)
    \/ \E h \in DOMAIN activeIntervals : Tick(h)
    \/ onDestroy

SpecTicks == TicksInit /\ [][TicksNext]_vars

\* Canvases of n phases with estimates drawn from blocks.
RECURSIVE Canvases(_, _)
Canvases(n, blocks) ==
    IF n = 0 THEN {<<>>}
    ELSE {Append(bs, b) : bs \in Canvases(n - 1, blocks), b \in blocks}

\* Run-all on a canvas of pending phases that nothing else starts, pauses
\* or removes.
RunAllInit ==
    /\ variant \in Variants
    /\ \E n \in 0..MaxPhases : \E bs \in Canvases(n, {ShortBlock}) :
           WorkbenchWith(bs)
    /\ WorkflowInit /\ ListInit
    /\ lastEvent = Other

RunAllNext ==
    \/ runAllCalls < MaxRunAll /\ runAllPhases
    \/ \E h \in DOMAIN activeIntervals : Tick(h)

SpecRunAll == RunAllInit /\ [][RunAllNext]_vars

\* The engine under every interleaving of its handlers, on canvases of up
\* to MaxEngine phases of the shortest estimate.
MaxEngine == 2

\* Clicks on the run-all button while phases are also run by hand.
MaxEngineRunAll == 1

EngineInit ==
    /\ variant \in Variants
    /\ \E n \in 0..MaxEngine : \E bs \in Canvases(n, {ShortBlock}) :
           WorkbenchWith(bs)
    /\ WorkflowInit /\ ListInit
    /\ lastEvent = Other

EngineNext ==
    \/ \E id \in Rendered : togglePhaseExecution(id)
    \/ \E h \in DOMAIN activeIntervals : Tick(h)
    \/ runAllCalls < MaxEngineRunAll /\ runAllPhases
    \/ \E id \in Rendered : removePhase(id)
    \/ onDestroy

SpecEngine == EngineInit /\ [][EngineNext]_vars

\* Drags begun, carried over the canvas and its items, dropped on an item
\* and ended while a phase is run, paused and reset: the canvas holds a
\* phase of the shortest estimate, which is the one run, and a phase of
\* another block, which is the one dragged.  The same gestures on the
\* workflow builder.
DragRunInit ==
    /\ variant \in Variants \cup {"WorkflowBuilder"}
    /\ WorkbenchWith(<<ShortBlock, paletteBlocks[1]>>)
    /\ WorkflowInit /\ ListInit
    /\ lastEvent = Other

DragRunNext ==
    \/ \E i \in 1..Len(experimentPhases) :
           /\ experimentPhases[i].type = ShortBlock.type
           /\ togglePhaseExecution(experimentPhases[i].id)
    \/ \E h \in DOMAIN activeIntervals : Tick(h)
    \/ handlePaletteDragStart(ShortBlock)
    \/ \E i \in 1..Len(experimentPhases) :
           /\ experimentPhases[i].type # ShortBlock.type
           /\ handlePhaseDragStart(experimentPhases[i])
    \/ handleCanvasDragEnter
    \/ \E t \in Rendered : handlePhaseDragEnter(t)
    \/ \E t \in Rendered : handlePhaseDrop(t)
    \/ handleDragEnd
    \/ wf_handlePaletteDragStart(wfPaletteBlocks[1])
    \/ wf_handleCanvasDragEnter
    \/ wf_handleCanvasDrop
    \/ \E i \in 1..Len(workflowSteps) :
           handleWorkflowItemDragStart(workflowSteps[i])
    \/ \E t \in IdsOf(workflowSteps) : handleWorkflowItemDragEnter(t)
    \/ wf_handleDragEnd

SpecDragRun == DragRunInit /\ [][DragRunNext]_vars

\* Everything that changes the canvas: it starts with a phase of the
\* shortest estimate, which is run, paused and reset, and a phase of the
\* first palette block; more phases of that block are dropped on it, and
\* phases are dragged, dropped on each other, edited and removed.
Idle == {id \in Rendered :
            \E i \in 1..Len(experimentPhases) :
                /\ experimentPhases[i].id = id
                /\ experimentPhases[i].type # ShortBlock.type}

SequenceInit ==
    /\ variant \in Variants
    /\ WorkbenchWith(<<ShortBlock, paletteBlocks[1]>>)
    /\ WorkflowInit /\ ListInit
    /\ lastEvent = Other

SequenceNext ==
    \/ \E id \in Rendered \ Idle : togglePhaseExecution(id)
    \/ \E h \in DOMAIN activeIntervals : Tick(h)
    \/ handlePaletteDragStart(paletteBlocks[1])
    \/ handleCanvasDrop
    \/ \E i \in 1..Len(experimentPhases) :
           /\ experimentPhases[i].id \in Idle
           /\ handlePhaseDragStart(experimentPhases[i])
    \/ \E t \in Rendered : handlePhaseDrop(t)
    \/ handleDragEnd
    \/ \E id \in Rendered : removePhase(id)
    \/ \E id \in Idle : \E newText \in Texts : updatePhaseText(id, newText)

SpecSequence == SequenceInit /\ [][SequenceNext]_vars

\* One click on run-all on a canvas of phases of the shortest estimate;
\* once the call has begun, phases of the first palette block are dropped
\* on the canvas and phases are dragged and dropped on each other.
SnapshotInit ==
    /\ variant \in Variants
    /\ \E n \in 1..MaxEngine : \E bs \in Canvases(n, {ShortBlock}) :
           WorkbenchWith(bs)
    /\ WorkflowInit /\ ListInit
    /\ lastEvent = Other

SnapshotNext ==
    \/ runAllCalls = 0 /\ runAllPhases
    \/ \E h \in DOMAIN activeIntervals : Tick(h)
    \/ runAllCalls > 0 /\ handlePaletteDragStart(paletteBlocks[1])
    \/ runAllCalls > 0 /\ handleCanvasDrop
    \/ \E i \in 1..Len(experimentPhases) :
           runAllCalls > 0 /\ handlePhaseDragStart(experimentPhases[i])
    \/ \E t \in Rendered : runAllCalls > 0 /\ handlePhaseDrop(t)
    \/ handleDragEnd

SpecSnapshot == SnapshotInit /\ [][SnapshotNext]_vars

\* One click on run-all on a canvas of pending phases; once the call has
\* begun, phases are run, paused and reset by hand and removed.
RecheckInit ==
    /\ variant \in Variants
    /\ \E n \in 1..MaxEngine : \E bs \in Canvases(n, {ShortBlock}) :
           WorkbenchWith(bs)
    /\ WorkflowInit /\ ListInit
    /\ lastEvent = Other

RecheckNext ==
    \/ runAllCalls < MaxEngineRunAll /\ runAllPhases
    \/ \E h \in DOMAIN activeIntervals : Tick(h)
    \/ \E id \in Rendered : runAllCalls > 0 /\ togglePhaseExecution(id)
    \/ \E id \in Rendered : runAllCalls > 0 /\ removePhase(id)

SpecRecheck == RecheckInit /\ [][RecheckNext]_vars

\* Every handler of the workbench around one click on run-all: the canvas
\* starts with one phase of the shortest estimate, which run-all starts
\* and which is then paused, resumed and reset by hand while phases of the
\* first palette block are dropped on the canvas, dragged, dropped on
\* other phases and edited, and phases are removed.
\* The largest id of a phase dropped on the canvas during the call.
MaxSuspended == 2

SuspendedInit ==
    /\ variant \in Variants
    /\ WorkbenchWith(<<ShortBlock>>)
    /\ WorkflowInit /\ ListInit
    /\ lastEvent = Other

SuspendedNext ==
    \/ runAllCalls < MaxEngineRunAll /\ runAllPhases
    \/ runAllCalls > 0 /\ \E h \in DOMAIN activeIntervals : Tick(h)
    \/ runAllCalls > 0 /\ \E id \in Rendered \ Idle : togglePhaseExecution(id)
    \/ runAllCalls > 0 /\ handlePaletteDragStart(paletteBlocks[1])
    \/ runAllCalls > 0 /\ nextId <= MaxSuspended /\ handleCanvasDrop
    \/ runAllCalls > 0 /\ \E i \in 1..Len(experimentPhases) :
           /\ experimentPhases[i].id \in Idle
           /\ handlePhaseDragStart(experimentPhases[i])
    \/ runAllCalls > 0 /\ \E t \in Rendered : handlePhaseDrop(t)
    \/ runAllCalls > 0 /\ handleDragEnd
    \/ runAllCalls > 0 /\ \E id \in Rendered : removePhase(id)
    \/ runAllCalls > 0 /\ \E id \in Idle : \E newText \in Texts :
           updatePhaseText(id, newText)

SpecSuspended == SuspendedInit /\ [][SuspendedNext]_vars

\* The interval callback of the phase id runs.
TickOf(id) ==
    \E h \in DOMAIN activeIntervals :
        activeIntervals[h].id = id /\ Tick(h)

\* Phases run by hand under a timer that keeps firing: one or two phases
\* of the shortest estimate are started, paused, resumed, reset and
\* removed, and an interval that stays active has its callback run again
\* and again (setInterval with a period of TickIntervalMs).
FairInit ==
    /\ variant \in Variants
    /\ \E n \in 1..MaxEngine : \E bs \in Canvases(n, {ShortBlock}) :
           WorkbenchWith(bs)
    /\ WorkflowInit /\ ListInit
    /\ lastEvent = Other

FairNext ==
    \/ \E id \in Rendered : togglePhaseExecution(id)
    \/ \E id \in 1..MaxEngine : TickOf(id)
    \/ \E id \in Rendered : removePhase(id)

\* The interval of the phase id fires: its callback runs on the running
\* phase once more.  The steps of FairNext of this kind are the steps
\* TickOf(id), and one is possible exactly while the interval is active.
TimerFires(id) ==
    /\ \E h \in DOMAIN activeIntervals : activeIntervals[h].id = id
    /\ tickCount' = With(tickCount, id, tickCount[id] + 1)

TimersFire == \A id \in 1..MaxEngine : WF_tickCount(TimerFires(id))

SpecFair == FairInit /\ [][FairNext]_vars /\ TimersFire

\* Run-all alone under a timer that keeps firing: the canvas is as in
\* RunAllInit, run-all is clicked whenever its button is enabled, no run
\* button of a phase is clicked and no phase is removed.
AllTimersFire == \A id \in 1..MaxPhases : WF_tickCount(TimerFires(id))

SpecRunAllFair == RunAllInit /\ [][RunAllNext]_vars /\ AllTimersFire

\* Drags of a phase that changes while it is dragged: of the two phases on
\* the canvas the one of the shortest estimate is started, paused, resumed
\* and reset by hand, ticks and is edited; either phase is dragged and
\* dropped on the other.
StaleInit == SequenceInit

StaleNext ==
    \/ \E id \in Rendered \ Idle : togglePhaseExecution(id)
    \/ \E h \in DOMAIN activeIntervals : Tick(h)
    \/ \E i \in 1..Len(experimentPhases) :
           handlePhaseDragStart(experimentPhases[i])
    \/ \E t \in Rendered : handlePhaseDrop(t)
    \/ handleDragEnd
    \/ \E id \in Rendered \ Idle : \E newText \in Texts :
           updatePhaseText(id, newText)

SpecStale == StaleInit /\ [][StaleNext]_vars

\* Every drag gesture of the workbench while a phase runs: of the two
\* phases on the canvas the one of the shortest estimate is started by
\* hand and ticks to completion; a palette block or either phase is
\* dragged over the canvas and the phases, and a phase is dropped on a
\* phase.
MoveInit == SequenceInit

MoveNext ==
    \/ \E id \in Rendered \ Idle :
           /\ StatusOf(experimentPhases, id) = "pending"
           /\ togglePhaseExecution(id)
    \/ \E h \in DOMAIN activeIntervals : Tick(h)
    \/ handlePaletteDragStart(ShortBlock)
    \/ \E i \in 1..Len(experimentPhases) :
           handlePhaseDragStart(experimentPhases[i])
    \/ handleCanvasDragEnter
    \/ handleCanvasDragOver
    \/ \E targetIsCanvas \in BOOLEAN : handleCanvasDragLeave(targetIsCanvas)
    \/ \E t \in Rendered : handlePhaseDragEnter(t)
    \/ handlePhaseDragOver
    \/ \E t \in Rendered : handlePhaseDragLeave(t)
    \/ \E t \in Rendered : handlePhaseDrop(t)
    \/ handleDragEnd

SpecMove == MoveInit /\ [][MoveNext]_vars

\* Whatever writes a phase that has a log: of the two phases on the canvas
\* the one of the shortest estimate is started, paused, resumed and reset
\* by hand and ticks; both are edited, and the other one is dragged and
\* dropped before and behind it.
LogInit == SequenceInit

LogNext ==
    \/ \E id \in Rendered \ Idle : togglePhaseExecution(id)
    \/ \E h \in DOMAIN activeIntervals : Tick(h)
    \/ \E i \in 1..Len(experimentPhases) :
           /\ experimentPhases[i].id \in Idle
           /\ handlePhaseDragStart(experimentPhases[i])
    \/ \E t \in Rendered : handlePhaseDrop(t)
    \/ handleDragEnd
    \/ \E id \in Rendered : \E newText \in Texts :
           updatePhaseText(id, newText)

SpecLog == LogInit /\ [][LogNext]_vars

\* The component is destroyed while phases run: one or two phases of the
\* shortest estimate are started by hand or by run-all and tick, and the
\* component is destroyed at any moment.
TeardownInit == RecheckInit

TeardownNext ==
    \/ runAllCalls < MaxEngineRunAll /\ runAllPhases
    \/ \E id \in Rendered :
           /\ StatusOf(experimentPhases, id) = "pending"
           /\ togglePhaseExecution(id)
    \/ \E h \in DOMAIN activeIntervals : Tick(h)
    \/ onDestroy

SpecTeardown == TeardownInit /\ [][TeardownNext]_vars

\* ------------------------------------------------------------------------
\* Reordering properties
\* ------------------------------------------------------------------------

\* The last handler was a drop of a dragged entry of the sequence on a
\* rendered one, by one of op's handlers.
DropRan(ops) == lastEvent.op \in ops

BothPresent ==
    /\ lastEvent.source # lastEvent.target
    /\ lastEvent.source \in IdsOf(lastEvent.pre)
    /\ lastEvent.target \in IdsOf(lastEvent.pre)

\* post is pre with the source moved to just before the target.
MovedBefore(pre, post, source, target) ==
    /\ Len(post) = Len(pre)
    /\ IdsOf(post) = IdsOf(pre)
    /\ FilterOut(post, source) = FilterOut(pre, source)
    /\ FindIndex(post, source) + 1 = FindIndex(post, target)

\* C1: in the workbench, a drop of a present phase on another present
\* phase keeps the ids and the length, keeps every other phase in its
\* relative order, and leaves the source immediately before the target.
C1_MoveBefore ==
    (DropRan({"handlePhaseDrop"}) /\ BothPresent) =>
        MovedBefore(lastEvent.pre, experimentPhases,
                    lastEvent.source, lastEvent.target)

\* C1 witness: the first of three phases was dropped on the last one and
\* now stands between the other two.
C1_Witness ==
    /\ DropRan({"handlePhaseDrop"})
    /\ Len(lastEvent.pre) = 3
    /\ FindIndex(lastEvent.pre, lastEvent.source) = 0
    /\ FindIndex(lastEvent.pre, lastEvent.target) = 2
    /\ FindIndex(experimentPhases, lastEvent.source) = 1
    /\ FindIndex(experimentPhases, lastEvent.target) = 2

\* C2: in the workflow builder and the draggable list, a drop of a present
\* entry S on another present entry T keeps the ids and the length and
\* leaves S directly followed by T, wherever S stood.
C2_InsertBefore ==
    /\ (DropRan({"handleWorkflowItemDrop"}) /\ BothPresent) =>
           MovedBefore(lastEvent.pre, workflowSteps,
                       lastEvent.source, lastEvent.target)
    /\ (DropRan({"handleDrop"}) /\ BothPresent) =>
           MovedBefore(lastEvent.pre, items,
                       lastEvent.source, lastEvent.target)

\* The sequence the mounted component shows.
Sequence ==
    IF variant \in Variants THEN experimentPhases
    ELSE IF variant = "WorkflowBuilder" THEN workflowSteps
    ELSE items

DropOps == {"handlePhaseDrop", "handleWorkflowItemDrop", "handleDrop"}

\* Ids a drop could name: none (0), those ever handed out, and one more.
SomeIds == 0..(MaxPhases + 1)

\* C3: a drop of an entry on itself, or a drop naming a source or a target
\* that is not in the sequence (a phase removed while it was dragged is
\* one), leaves the sequence as it was, field by field.  The handlers only
\* run for rendered targets, so the absent target is put to the update
\* callbacks directly.
C3_NoOpDrop ==
    /\ (/\ DropRan(DropOps)
        /\ \/ lastEvent.source = lastEvent.target
           \/ lastEvent.source \notin IdsOf(lastEvent.pre)
           \/ lastEvent.target \notin IdsOf(lastEvent.pre))
       => Sequence = lastEvent.pre
    /\ \A s, t \in SomeIds :
           (s \notin IdsOf(experimentPhases) \/ t \notin IdsOf(experimentPhases))
           => /\ PhaseDropUpdate_svelte(experimentPhases, s, t) = experimentPhases
              /\ PhaseDropUpdate_part000(experimentPhases, s, t) = experimentPhases
    /\ \A s, t \in SomeIds :
           (s \notin IdsOf(workflowSteps) \/ t \notin IdsOf(workflowSteps))
           => WorkflowItemDropUpdate(workflowSteps, s, t) = workflowSteps

\* C3 witness: a phase was removed while it was dragged, then dropped on
\* one of the two phases left.
C3_Witness ==
    /\ DropRan({"handlePhaseDrop"})
    /\ lastEvent.source # 0
    /\ lastEvent.source \notin IdsOf(lastEvent.pre)
    /\ draggingItem.type = "workflowItem"
    /\ draggingItem.id = lastEvent.source
    /\ variant = "part_000"
    /\ Len(experimentPhases) = 2

\* ------------------------------------------------------------------------
\* Progress properties
\* ------------------------------------------------------------------------

\* An uninterrupted run as <<progress, ticks>>: one tick adds inc unless
\* the sum has reached 100, which the tick before it then completed on.
Advance(run, inc) ==
    IF FGeqInt(run[1], 100) THEN run
    ELSE <<FAdd(run[1], inc), run[2] + 1>>

Advance5(run, inc) ==
    Advance(Advance(Advance(Advance(Advance(run, inc), inc), inc), inc), inc)

\* The ticks an uninterrupted run takes to completion, five at a time.
RECURSIVE TicksToComplete(_, _)
TicksToComplete(run, inc) ==
    IF FGeqInt(run[1], 100) THEN run[2]
    ELSE TicksToComplete(Advance5(Advance5(run, inc), inc), inc)

UninterruptedTicks(estimatedDuration) ==
    TicksToComplete(<<FInt(0), 0>>, ProgressIncrement(estimatedDuration))

\* The handler that ran resumed the paused phase at index i.
Resumed(i) ==
    /\ i <= Len(experimentPhases')
    /\ experimentPhases'[i].id = experimentPhases[i].id
    /\ experimentPhases[i].status = "paused"
    /\ experimentPhases'[i].status = "running"

\* C9: a resume leaves the progress the phase was paused at, and a phase
\* completes, however it was paused on its way, on the tick an
\* uninterrupted run completes on: the ticks of its run periods add up to
\* the ticks of an uninterrupted run.
C9_ResumeContinues ==
    /\ [][\A i \in 1..Len(experimentPhases) :
             Resumed(i) =>
                 /\ experimentPhases'[i].progress = experimentPhases[i].progress
                 /\ tickCount'[experimentPhases[i].id] =
                        tickCount[experimentPhases[i].id]]_vars
    /\ [](\A i \in 1..Len(experimentPhases) :
             LET p == experimentPhases[i]
             IN  /\ p.status = "completed" =>
                        tickCount[p.id] = UninterruptedTicks(p.estimatedDuration)
                 /\ p.status \in {"running", "paused"} =>
                        tickCount[p.id] < UninterruptedTicks(p.estimatedDuration))

\* C9 witness: a 15-second phase paused past half its way has been
\* resumed, and runs on from there.
C9_Witness ==
    /\ Len(experimentPhases) = 1
    /\ experimentPhases[1].estimatedDuration = 15
    /\ experimentPhases[1].status = "running"
    /\ experimentPhases[1].logs = <<"started", "started">>
    /\ experimentPhases[1].progress[1] >= 50
    /\ tickCount[1] >= 37

\* The phase was started once since its progress was last 0.
StartedOnce(p) ==
    Cardinality({k \in DOMAIN p.logs : p.logs[k] = "started"}) = 1

\* A phase started once completes on tick n(d) and on no earlier one.
CompletesOnTick(n(_)) ==
    \A i \in 1..Len(experimentPhases) :
        LET p == experimentPhases[i]
        IN  StartedOnce(p) =>
                /\ p.status = "completed" =>
                       /\ tickCount[p.id] = n(p.estimatedDuration)
                       /\ p.progress = FInt(100)
                /\ p.status = "running" =>
                       tickCount[p.id] < n(p.estimatedDuration)

FiveTimes(d) == 5 * d

\* C10 as stated: a phase of d seconds started from pending and never
\* paused completes, with progress 100, on its (5 * d)-th tick and on no
\* earlier one.
C10_FiveTicksASecond == CompletesOnTick(FiveTimes)

\* The sum of 75 increments of 100 / 75 is 99.99999999999991 in binary64.
TicksOf(d) == IF d = 15 THEN 5 * d + 1 ELSE 5 * d

\* C10, amended: a phase of d seconds started from pending and never
\* paused completes, with progress 100, on its (5 * d)-th tick for the
\* palette's estimates of 8, 10, 12 and 20 seconds (a 10-second phase on
\* tick 50), on its 76th tick for the estimate of 15 seconds, and on no
\* earlier tick.
C10_TicksToComplete ==
    /\ CompletesOnTick(TicksOf)
    /\ \A b \in PaletteSet : b.estimatedDuration \in {8, 10, 12, 15, 20}

\* C10 witness: a 15-second phase, started once, is completed after 76
\* ticks.
C10_Witness ==
    /\ Len(experimentPhases) = 1
    /\ experimentPhases[1].estimatedDuration = 15
    /\ experimentPhases[1].status = "completed"
    /\ experimentPhases[1].logs = <<"started", "completed">>
    /\ tickCount[1] = 76

\* ------------------------------------------------------------------------
\* Engine properties
\* ------------------------------------------------------------------------

RunningCount ==
    Cardinality({i \in 1..Len(experimentPhases) :
                    experimentPhases[i].status = "running"})

\* C4: while run-all has been clicked at most once and no phase is run by
\* hand, a phase has left pending only when every phase before it on the
\* canvas is completed, so the phases start in canvas order, each after
\* the ones before it completed, and at most one phase is running.
C4_RunAllSequential ==
    runAllCalls <= 1 =>
        /\ RunningCount <= 1
        /\ \A i, j \in 1..Len(experimentPhases) :
               (i < j /\ experimentPhases[j].status # "pending")
               => experimentPhases[i].status = "completed"

\* C4 witness: one click on run-all; the first of three phases is
\* completed, the second is running, the third is pending.
C4_Witness ==
    /\ runAllCalls = 1
    /\ Len(experimentPhases) = 3
    /\ experimentPhases[1].status = "completed"
    /\ experimentPhases[2].status = "running"
    /\ experimentPhases[2].progress[1] >= 50
    /\ experimentPhases[3].status = "pending"

\* The ids the host's live intervals act for.
LiveIds == {activeIntervals[h].id : h \in DOMAIN activeIntervals}

\* C5: once a phase is removed, no interval is registered under its id
\* and the host holds no live interval that acts for it: no tick for
\* that id can fire any more.
C5_RemoveCancelsTimer ==
    /\ DOMAIN phaseIntervals \subseteq Rendered
    /\ LiveIds \subseteq Rendered

\* C5 witness: a running phase has just been removed while the other
\* phase runs on.
C5_Witness ==
    /\ lastEvent.op = "removePhase"
    /\ lastEvent.status = "running"
    /\ lastEvent.id \notin Rendered
    /\ Len(experimentPhases) = 1
    /\ experimentPhases[1].status = "running"
    /\ experimentPhases[1].progress[1] >= 50

\* The live intervals that act for a phase.
LiveFor(id) == {h \in DOMAIN activeIntervals : activeIntervals[h].id = id}

\* C6: before teardown every running phase has exactly one live interval,
\* the one registered under its id.
C6_OneTimerPerRunning ==
    ~destroyed =>
        \A i \in 1..Len(experimentPhases) :
            LET p == experimentPhases[i]
            IN  p.status = "running" =>
                    /\ p.id \in DOMAIN phaseIntervals
                    /\ LiveFor(p.id) = {phaseIntervals[p.id]}

\* C6 witness: two phases run, one of them resumed after a pause.
C6_Witness ==
    /\ ~destroyed
    /\ Len(experimentPhases) = 2
    /\ experimentPhases[1].status = "running"
    /\ experimentPhases[1].logs = <<"started", "started">>
    /\ experimentPhases[1].progress[1] >= 50
    /\ experimentPhases[2].status = "running"
    /\ Cardinality(DOMAIN activeIntervals) = 2

\* C7: every id with a registered interval is the id of a running phase on
\* the canvas, and every live interval is a registered one.
C7_NoOrphanTimers ==
    /\ \A id \in DOMAIN phaseIntervals :
           StatusOf(experimentPhases, id) = "running"
    /\ \A h \in DOMAIN activeIntervals :
           /\ activeIntervals[h].id \in DOMAIN phaseIntervals
           /\ phaseIntervals[activeIntervals[h].id] = h

\* C7 witness: one of two phases was removed while running, the other is
\* paused or completed; no interval is left.
C7_Witness ==
    /\ lastEvent.op = "removePhase"
    /\ lastEvent.status = "running"
    /\ Len(experimentPhases) = 1
    /\ experimentPhases[1].status \in {"completed", "paused"}
    /\ experimentPhases[1].logs # <<>>
    /\ phaseIntervals = <<>>
    /\ activeIntervals = <<>>

\* C8: a phase's progress is 100 exactly when its status is completed.
C8_FullIffCompleted ==
    \A i \in 1..Len(experimentPhases) :
        (experimentPhases[i].progress = FInt(100))
        <=> (experimentPhases[i].status = "completed")

\* C8 witness: one phase is completed at 100, the other is one tick short
\* of it.
C8_Witness ==
    /\ Len(experimentPhases) = 2
    /\ experimentPhases[1].status = "completed"
    /\ experimentPhases[1].progress = FInt(100)
    /\ experimentPhases[2].status = "running"
    /\ tickCount[2] = 39



\* ------------------------------------------------------------------------
\* The aggregate progress shown in the header
\* ------------------------------------------------------------------------

Overall == overallExperimentProgress(experimentPhases)

StatusesOf(phases) == [i \in 1..Len(phases) |-> phases[i].status]
ProgressesOf(phases) == [i \in 1..Len(phases) |-> phases[i].progress]

\* One phase done, the second half way, the third not started.
OneDoneOneHalfWay ==
    /\ StatusesOf(experimentPhases) = <<"completed", "running", "pending">>
    /\ ProgressesOf(experimentPhases) = <<FInt(100), FInt(50), FInt(0)>>

\* C11: the aggregate's totalCount is the number of phases, its
\* completedCount the number of completed phases, and isComplete holds
\* exactly when there is at least one phase and all are completed; the
\* empty canvas gives {0, 0, 0, false}, and progresses [100, 50, 0] with
\* statuses [completed, running, pending] give {50, 1, 3, false}.
C11_AggregateProjection ==
    /\ Overall.totalCount = Len(experimentPhases)
    /\ Overall.completedCount =
           Len(SelectSeq(experimentPhases, LAMBDA p : p.status = "completed"))
    /\ Overall.isComplete <=>
           /\ Overall.totalCount > 0
           /\ Overall.completedCount = Overall.totalCount
    /\ experimentPhases = <<>> =>
           Overall = [averageProgress |-> 0, completedCount |-> 0,
                      totalCount |-> 0, isComplete |-> FALSE]
    /\ OneDoneOneHalfWay =>
           Overall = [averageProgress |-> 50, completedCount |-> 1,
                      totalCount |-> 3, isComplete |-> FALSE]

\* Run-all has completed the first of three phases and the second is half
\* way.
C11_Witness ==
    /\ OneDoneOneHalfWay
    /\ runAllCalls > 0
    /\ Overall.averageProgress = 50


\* The sum of the progress values as a real number, in the shape of a
\* progress value (integer part and two limbs) but with no rounding.
RECURSIVE LimbSums(_, _)
LimbSums(phases, k) ==
    IF phases = <<>> THEN 0
    ELSE Head(phases).progress[k] + LimbSums(Tail(phases), k)

ExactSum(phases) ==
    LET low == LimbSums(phases, 3)
        high == LimbSums(phases, 2) + low \div Limb
    IN  <<LimbSums(phases, 1) + high \div Limb, high % Limb, low % Limb>>

\* x >= h / 2 for a real x of that shape and an integer h.
GeqHalves(x, h) ==
    IF h % 2 = 0 THEN x[1] >= h \div 2
    ELSE \/ x[1] > h \div 2
         \/ x[1] = h \div 2 /\ x[2] >= Limb \div 2

C13_ResetCompleted ==
    [][\A i \in 1..Len(experimentPhases) :
          /\ experimentPhases[i].status = "completed"
          /\ togglePhaseExecution(experimentPhases[i].id)
          => /\ experimentPhases'[i].id = experimentPhases[i].id
             /\ experimentPhases'[i].status = "pending"
             /\ experimentPhases'[i].progress = FInt(0)
             /\ experimentPhases'[i].actualDuration = NULL
             /\ experimentPhases'[i].logs = <<"reset">>
             /\ phaseIntervals' = phaseIntervals
             /\ activeIntervals' = activeIntervals]_vars

\* A phase that ran to completion has been reset.
C13_Witness ==
    /\ Len(experimentPhases) = 1
    /\ experimentPhases[1].status = "pending"
    /\ experimentPhases[1].logs = <<"reset">>
    /\ experimentPhases[1].progress = FInt(0)
    /\ experimentPhases[1].actualDuration = NULL
    /\ phaseIntervals = <<>> /\ activeIntervals = <<>>
    /\ ~destroyed


\* ------------------------------------------------------------------------
\* Drops on the canvas
\* ------------------------------------------------------------------------

\* post is pre with one element more, and pre's elements are where and
\* what they were.
AppendedOne(pre, post) ==
    /\ Len(post) = Len(pre) + 1
    /\ SubSeq(post, 1, Len(pre)) = pre
    /\ post[Len(post)].id \notin IdsOf(pre)

\* C14: a palette block dropped on the canvas makes the canvas one phase
\* longer; the new phase is last, has an id no phase had, is pending with
\* progress 0, an empty log, no actualDuration and canBeRun true; every
\* phase that was there keeps its place and all its fields.
C14_AppendOne ==
    [][/\ draggingItem.type = "paletteItem"
       /\ handleCanvasDrop
       => /\ AppendedOne(experimentPhases, experimentPhases')
          /\ LET new == experimentPhases'[Len(experimentPhases')]
             IN  /\ new.id >= nextId
                 /\ new.type = draggingItem.data.type
                 /\ new.status = "pending"
                 /\ new.progress = FInt(0)
                 /\ new.logs = <<>>
                 /\ new.actualDuration = NULL
                 /\ new.canBeRun]_vars

\* A block was dropped on a canvas that held a phase, one edited by hand.
C14_Witness ==
    /\ lastEvent.op = "append"
    /\ Len(lastEvent.pre) >= 1
    /\ lastEvent.pre[1].text = "edited"
    /\ AppendedOne(lastEvent.pre, experimentPhases)

\* post is pre with one step more at its end.
AppendedStep(pre, post) ==
    /\ Len(post) = Len(pre) + 1
    /\ SubSeq(post, 1, Len(pre)) = pre

\* C15: a drop on the bare canvas appends exactly one phase when a palette
\* item is dragged and leaves the canvas as it was when a phase of the
\* canvas or nothing is dragged; either way the canvas is no longer marked
\* as dragged over.  The same holds of the workflow builder's canvas.
C15_CanvasDrop ==
    [][/\ handleCanvasDrop =>
             /\ IF draggingItem.type = "paletteItem"
                THEN AppendedStep(experimentPhases, experimentPhases')
                ELSE experimentPhases' = experimentPhases
             /\ dragOverCanvas' = FALSE
       /\ wf_handleCanvasDrop =>
             /\ IF wfDraggingItem.type = "paletteItem"
                THEN AppendedStep(workflowSteps, workflowSteps')
                ELSE workflowSteps' = workflowSteps
             /\ wfDragOverCanvas' = FALSE]_vars

\* A phase of the canvas was dragged over the canvas and dropped on it:
\* the canvas is as it was and no longer marked.
C15_Witness ==
    /\ lastEvent.op = "handleCanvasDrop"
    /\ lastEvent.session = "workflowItem"
    /\ draggingItem.type = "workflowItem"
    /\ Len(experimentPhases) >= 2
    /\ ~dragOverCanvas


\* ------------------------------------------------------------------------
\* Drops on an item
\* ------------------------------------------------------------------------

\* C16: a palette item dropped on a phase of the canvas changes nothing on
\* the canvas: it is neither inserted at the phase nor appended; the same
\* holds of a palette item dropped on a step of the workflow builder.
C16_CatalogDropOnItemRejected ==
    [][/\ \A t \in Rendered :
             draggingItem.type = "paletteItem" /\ handlePhaseDrop(t)
             => experimentPhases' = experimentPhases
       /\ \A t \in IdsOf(workflowSteps) :
             wfDraggingItem.type = "paletteItem" /\ handleWorkflowItemDrop(t)
             => workflowSteps' = workflowSteps]_vars

\* A palette item was dropped on the second of two phases.
C16_Witness ==
    /\ lastEvent.op = "handlePhaseDrop"
    /\ draggingItem.type = "paletteItem"
    /\ Len(experimentPhases) = 2
    /\ lastEvent.target = experimentPhases[2].id
    /\ lastEvent.pre = experimentPhases


\* ------------------------------------------------------------------------
\* The end of a drag
\* ------------------------------------------------------------------------

\* Nothing is dragged and nothing is marked as dragged over.
NoSession ==
    draggingItem = NoDrag /\ ~dragOverCanvas /\ dragOverPhaseId = 0

wf_NoSession ==
    wfDraggingItem = NoDrag /\ ~wfDragOverCanvas
    /\ dragOverWorkflowItemId = 0

\* C17: whatever is dragged and marked, after handleDragEnd nothing is
\* dragged, the canvas is not marked and no item is marked; it changes
\* neither the phases nor any interval; and when nothing was dragged or
\* marked, as after an earlier handleDragEnd, it changes nothing at all.
\* The same holds of the workflow builder's handleDragEnd.
C17_DragEndClears ==
    [][/\ handleDragEnd =>
             /\ NoSession'
             /\ experimentPhases' = experimentPhases
             /\ phaseIntervals' = phaseIntervals
             /\ activeIntervals' = activeIntervals
             /\ NoSession => UNCHANGED <<wbState, wfVars, listVars>>
       /\ wf_handleDragEnd =>
             /\ wf_NoSession'
             /\ workflowSteps' = workflowSteps
             /\ wf_NoSession => UNCHANGED <<wbState, wfVars, listVars>>]_vars

\* A second handleDragEnd has run, after a drag that was not dropped,
\* while the phase is running on its interval.
C17_Witness ==
    /\ lastEvent.op = "handleDragEnd"
    /\ lastEvent.session = NULL
    /\ NoSession
    /\ \E i \in 1..Len(experimentPhases) :
           /\ experimentPhases[i].status = "running"
           /\ tickCount[experimentPhases[i].id] > 0
    /\ DOMAIN activeIntervals # {}


\* ------------------------------------------------------------------------
\* The drag after a drop
\* ------------------------------------------------------------------------

WorkbenchDrop == handleCanvasDrop \/ \E t \in Rendered : handlePhaseDrop(t)

\* The handler that ran last was a drop on the workbench.
AfterWorkbenchDrop ==
    lastEvent.op \in {"append", "handleCanvasDrop", "handlePhaseDrop"}

\* C18 as stated: once a drop on the canvas or on an item has returned,
\* nothing is dragged any more, and a drop that follows it with no
\* handleDragEnd in between neither appends nor reorders.
C18_DropEndsSession ==
    [][/\ WorkbenchDrop => draggingItem' = NoDrag
       /\ (\E t \in IdsOf(items) : handleDrop(t)) => draggingItemId' = 0
       /\ AfterWorkbenchDrop /\ WorkbenchDrop
             => experimentPhases' = experimentPhases]_vars


\* ------------------------------------------------------------------------
\* Identity of the phases
\* ------------------------------------------------------------------------

\* No two phases of the canvas have the same id.
Distinct(phases) == Cardinality(IdsOf(phases)) = Len(phases)

\* The phase of that id in pre is the phase of that id in post: what a
\* phase is built from and no handler writes is the same.
SamePhase(pre, post, id) ==
    LET p == pre[FindIndex(pre, id) + 1]
        q == post[FindIndex(post, id) + 1]
    IN  /\ q.type = p.type
        /\ q.label = p.label
        /\ q.estimatedDuration = p.estimatedDuration

\* C19: in every state the ids of the phases are pairwise distinct.  A
\* drop on the canvas adds at most one id, one no phase had; removePhase
\* takes its id away; a reorder, a text edit, a click on a run button and
\* a tick leave the ids as they are; and a phase that stays keeps its id.
C19_IdsDistinct ==
    /\ [](Distinct(experimentPhases))
    /\ [][LET pre == IdsOf(experimentPhases)
              post == IdsOf(experimentPhases')
          IN  /\ \/ post = pre
                 \/ \E id \in pre : removePhase(id) /\ post = pre \ {id}
                 \/ /\ handleCanvasDrop
                    /\ \E id \in post \ pre :
                           post = pre \cup {id} /\ id >= nextId
              /\ \A id \in pre \cap post :
                     SamePhase(experimentPhases, experimentPhases', id)]_vars

\* The phase dropped last stands first, edited; the second was removed;
\* the first runs and has ticked.
C19_Witness ==
    /\ Len(experimentPhases) = 2
    /\ experimentPhases[1].id = 3
    /\ experimentPhases[1].text = "edited"
    /\ experimentPhases[2].id = 1
    /\ experimentPhases[2].status = "running"
    /\ tickCount[1] > 0
    /\ Distinct(experimentPhases)


\* ------------------------------------------------------------------------
\* Run-all and a phase that is paused or removed
\* ------------------------------------------------------------------------

\* C20 as stated: no runAllPhases call stays suspended on a phase that has
\* left running without completing; the phase a suspended call waits on
\* is running.
C20_RunAllMovesOn ==
    \A k \in 1..Len(runAllWaiting) :
        StatusOf(experimentPhases, runAllWaiting[k].phaseId) = "running"


\* ------------------------------------------------------------------------
\* The work list of run-all
\* ------------------------------------------------------------------------

\* The phases that were on the canvas when run-all was clicked are those
\* of the shortest estimate, in the order of their ids; the phases dropped
\* on it since are of another block.
InSnapshot(p) == p.type = ShortBlock.type

PhaseSet == {experimentPhases[i] : i \in 1..Len(experimentPhases)}

\* C21: a phase dropped on the canvas after the call began is never
\* started by the call, and the phases that were on the canvas are
\* started in the order they stood in when the call began, however they
\* are reordered afterwards: one is started only when all that stood
\* before it are completed.
C21_SnapshotFixed ==
    \A p \in PhaseSet :
        /\ ~InSnapshot(p) => p.status = "pending" /\ p.progress = FInt(0)
        /\ InSnapshot(p) /\ p.status # "pending" =>
               \A q \in PhaseSet :
                   InSnapshot(q) /\ q.id < p.id => q.status = "completed"

\* The canvas was [1, 2] when run-all was clicked; phase 3 was dropped on
\* it since and the canvas reordered to [3, 2, 1]; phase 1 has completed,
\* phase 2 is running and phase 3 is still pending.
C21_Witness ==
    /\ runAllCalls = 1
    /\ Len(experimentPhases) = 3
    /\ experimentPhases[1].id = 3 /\ experimentPhases[1].status = "pending"
    /\ experimentPhases[2].id = 2 /\ experimentPhases[2].status = "running"
    /\ experimentPhases[3].id = 1 /\ experimentPhases[3].status = "completed"
    /\ tickCount[2] > 0


\* ------------------------------------------------------------------------
\* The statuses the engine produces
\* ------------------------------------------------------------------------

\* C22: no phase has status failed; every phase is pending, running,
\* paused or completed.
C22_NeverFailed ==
    \A i \in 1..Len(experimentPhases) :
        /\ experimentPhases[i].status # "failed"
        /\ experimentPhases[i].status \in
               {"pending", "running", "paused", "completed"}

\* Run-all was clicked on two phases, one was removed since, and the
\* other has run to completion, was reset and started again and paused.
C22_Witness ==
    /\ runAllCalls = 1
    /\ nextId = 3
    /\ Len(experimentPhases) = 1
    /\ experimentPhases[1].status = "paused"
    /\ experimentPhases[1].logs = <<"reset", "started">>
    /\ tickCount[experimentPhases[1].id] > 0


\* ------------------------------------------------------------------------
\* Run-all clicked again
\* ------------------------------------------------------------------------

StatusChanges ==
    {<<"pending", "running">>, <<"running", "paused">>,
     <<"running", "completed">>, <<"paused", "running">>,
     <<"completed", "pending">>}

\* The closure of an interval started for the phase p.
ClosureOf(p) ==
    [id |-> p.id, progressIncrement |-> ProgressIncrement(p.estimatedDuration)]

\* C24: a handler leaves the status of a phase as it is or changes it
\* from pending to running, running to paused, running to completed,
\* paused to running or completed to pending; a phase becomes completed
\* only from running and only in an interval callback; a click on the
\* run button of a completed phase leaves it pending; and the interval
\* callback of any phase changes nothing in a phase that is not running.
C24_StatusChanges ==
    /\ [][\A id \in Rendered \cap IdsOf(experimentPhases') :
             LET old == StatusOf(experimentPhases, id)
                 new == StatusOf(experimentPhases', id)
             IN  /\ old # new => <<old, new>> \in StatusChanges
                 /\ old # new /\ new = "completed" =>
                        \E h \in DOMAIN activeIntervals : Tick(h)
                 /\ old = "completed" /\ togglePhaseExecution(id) =>
                        new = "pending"]_vars
    /\ [](\A p \in PhaseSet : \A i \in 1..Len(experimentPhases) :
             experimentPhases[i].status # "running" =>
                 TickMap(Engine, ClosureOf(p), 1).phases[i]
                     = experimentPhases[i])

\* Of two phases the first has been through every change: it ran, was
\* paused and resumed, completed, was reset and is running again, while
\* the second is paused.
C24_Witness ==
    /\ Len(experimentPhases) = 2
    /\ experimentPhases[1].status = "running"
    /\ experimentPhases[1].logs = <<"reset", "started">>
    /\ experimentPhases[2].status = "paused"
    /\ experimentPhases[2].progress # FInt(0)


\* ------------------------------------------------------------------------
\* Run-all and a phase that is no longer pending
\* ------------------------------------------------------------------------

\* The ids of a sequence of ids.
Range(ids) == {ids[k] : k \in 1..Len(ids)}

\* The phase of that id is the same before and after the step, or on the
\* canvas neither before nor after.
Untouched(id) ==
    /\ id \in Rendered <=> id \in IdsOf(experimentPhases')
    /\ id \in Rendered =>
           experimentPhases'[FindIndex(experimentPhases', id) + 1]
               = experimentPhases[FindIndex(experimentPhases, id) + 1]

\* C25: when the phase a runAllPhases call waits on completes and the
\* call goes on to the phases left in its snapshot, a phase that is not
\* on the canvas any more or is not pending is left as it is (a running
\* phase is not paused, a paused one not resumed, a completed one not
\* reset) and the call does not wait on it.
C25_RecheckBeforeToggle ==
    [][\A k \in 1..Len(runAllWaiting) :
          LET w == runAllWaiting[k]
          IN  /\ StatusOf(experimentPhases, w.phaseId) = "running"
              /\ StatusOf(experimentPhases', w.phaseId) = "completed"
              => \A id \in Range(w.rest) :
                     StatusOf(experimentPhases, id) # "pending" =>
                         /\ Untouched(id)
                         /\ \A j \in 1..Len(runAllWaiting') :
                                runAllWaiting'[j].phaseId # id]_vars

\* Run-all was clicked on two pending phases; the second was then started
\* and paused by hand; the first has completed and the call has ended
\* without touching the second.
C25_Witness ==
    /\ runAllCalls = 1
    /\ runAllWaiting = <<>>
    /\ Len(experimentPhases) = 2
    /\ experimentPhases[1].status = "completed"
    /\ experimentPhases[2].status = "paused"
    /\ experimentPhases[2].logs = <<"started">>


\* ------------------------------------------------------------------------
\* Events while run-all is suspended
\* ------------------------------------------------------------------------

\* A runAllPhases call is suspended on a phase.
Suspended == runAllWaiting # <<>> /\ ~destroyed

\* The phases after a click on the run button of the phase id when no
\* call is suspended.
ToggledAlone(id) == TogglePhase([Engine EXCEPT !.waiting = <<>>], id).phases

\* The length of the log of the phase id.
ELogLen(id) == Len(experimentPhases[FindIndex(experimentPhases, id) + 1].logs)

\* C26: while a runAllPhases call is suspended every handler still takes
\* an event, and has the effect it has otherwise: a click on a run button
\* pauses, resumes or resets the phase, removePhase takes the phase off
\* the canvas, a palette item dropped on the canvas is appended, a phase
\* dropped on another stands before it, and a text edit sets the text.
C26_EventsWhileSuspended ==
    /\ [](Suspended =>
             /\ ENABLED handlePaletteDragStart(paletteBlocks[1])
             /\ ENABLED handleDragEnd
             /\ nextId <= MaxPhases => ENABLED handleCanvasDrop
             /\ \A id \in Rendered :
                    /\ ENABLED removePhase(id)
                    /\ ENABLED handlePhaseDrop(id)
                    /\ \A newText \in Texts :
                           ENABLED updatePhaseText(id, newText)
                    /\ ELogLen(id) < MaxLog
                       => ENABLED togglePhaseExecution(id))
    /\ [][Suspended =>
             /\ \A id \in Rendered :
                    /\ togglePhaseExecution(id) =>
                           /\ experimentPhases' = ToggledAlone(id)
                           /\ StatusOf(experimentPhases', id)
                                  # StatusOf(experimentPhases, id)
                    /\ removePhase(id) =>
                           /\ id \notin IdsOf(experimentPhases')
                           /\ experimentPhases' =
                                  FilterOut(experimentPhases, id)
                    /\ \A newText \in Texts :
                           updatePhaseText(id, newText) =>
                               /\ StatusesOf(experimentPhases')
                                      = StatusesOf(experimentPhases)
                               /\ experimentPhases'[
                                      FindIndex(experimentPhases, id) + 1].text
                                      = newText
                    /\ handlePhaseDrop(id)
                          /\ draggingItem.type = "workflowItem"
                          /\ draggingItem.id \in Rendered \ {id} =>
                           MovedBefore(experimentPhases, experimentPhases',
                                       draggingItem.id, id)
             /\ handleCanvasDrop /\ draggingItem.type = "paletteItem" =>
                    AppendedOne(experimentPhases, experimentPhases')]_vars

\* The call is suspended on the first phase, which was paused by hand
\* since; a phase dropped on the canvas after the click was moved before
\* it and edited.
C26_Witness ==
    /\ runAllCalls = 1
    /\ Len(runAllWaiting) = 1
    /\ runAllWaiting[1].phaseId = 1
    /\ Len(experimentPhases) = 2
    /\ experimentPhases[1].id = 2
    /\ experimentPhases[1].text = "edited"
    /\ experimentPhases[2].id = 1
    /\ experimentPhases[2].status = "paused"


\* ------------------------------------------------------------------------
\* Pause
\* ------------------------------------------------------------------------

\* The phases with status paused.
PausedIds == {id \in Rendered : StatusOf(experimentPhases, id) = "paused"}

\* The phase with the id in the canvas phases.
PhaseById(phases, id) == phases[FindIndex(phases, id) + 1]

\* C27: a click on the run button of a running phase leaves it paused,
\* with no interval registered or active for it and with every other field
\* (progress, logs, text, actualDuration) as it was; a paused phase has no
\* interval, no interval callback changes it, and as long as it stays
\* paused its progress stays what it was.
C27_PauseFreezes ==
    /\ [][\A i \in 1..Len(experimentPhases) :
             /\ experimentPhases[i].status = "running"
             /\ togglePhaseExecution(experimentPhases[i].id)
             => /\ experimentPhases'[i] =
                       [experimentPhases[i] EXCEPT !.status = "paused"]
                /\ experimentPhases[i].id \notin DOMAIN phaseIntervals'
                /\ \A h \in DOMAIN activeIntervals' :
                       activeIntervals'[h].id # experimentPhases[i].id]_vars
    /\ [](\A id \in PausedIds :
             /\ LiveFor(id) = {}
             /\ id \notin DOMAIN phaseIntervals
             /\ \A h \in DOMAIN activeIntervals :
                    PhaseById(TickMap(Engine, activeIntervals[h], 1).phases, id)
                        = PhaseById(experimentPhases, id))
    /\ [][\A id \in PausedIds :
             StatusOf(experimentPhases', id) = "paused"
             => PhaseById(experimentPhases', id).progress
                    = PhaseById(experimentPhases, id).progress]_vars

\* The first phase was paused part of the way and the second has run to
\* completion since.
C27_Witness ==
    /\ Len(experimentPhases) = 2
    /\ experimentPhases[1].status = "paused"
    /\ experimentPhases[1].progress # FInt(0)
    /\ experimentPhases[1].logs = <<"started">>
    /\ experimentPhases[2].status = "completed"
    /\ activeIntervals = <<>>


\* ------------------------------------------------------------------------
\* Range and direction of progress
\* ------------------------------------------------------------------------

\* a < b for two progress values.
FLess(a, b) ==
    \/ a[1] < b[1]
    \/ a[1] = b[1] /\ a[2] < b[2]
    \/ a[1] = b[1] /\ a[2] = b[2] /\ a[3] < b[3]

\* C28: the progress of every phase is at least 0 and at most 100; a tick
\* of the interval of a running phase either leaves it running with a
\* strictly larger progress or leaves it completed with progress 100; and
\* the progress of a phase gets smaller in one step only: a click on the
\* run button of a completed phase, which leaves it pending.
C28_ProgressMonotone ==
    /\ [](\A i \in 1..Len(experimentPhases) :
             /\ ~FLess(experimentPhases[i].progress, FInt(0))
             /\ ~FLess(FInt(100), experimentPhases[i].progress))
    /\ [][\A id \in Rendered :
             StatusOf(experimentPhases, id) = "running" /\ TickOf(id)
             => LET p == PhaseById(experimentPhases, id)
                    q == PhaseById(experimentPhases', id)
                IN  /\ FLess(p.progress, q.progress)
                    /\ \/ q.status = "running"
                       \/ q.status = "completed" /\ q.progress = FInt(100)]_vars
    /\ [][\A id \in Rendered :
             /\ id \in IdsOf(experimentPhases')
             /\ FLess(PhaseById(experimentPhases', id).progress,
                      PhaseById(experimentPhases, id).progress)
             => /\ StatusOf(experimentPhases, id) = "completed"
                /\ StatusOf(experimentPhases', id) = "pending"
                /\ togglePhaseExecution(id)]_vars

\* A phase that was completed, reset and started again is part of the way.
C28_Witness ==
    /\ Len(experimentPhases) = 1
    /\ experimentPhases[1].status = "running"
    /\ experimentPhases[1].logs = <<"reset", "started">>
    /\ FLess(FInt(0), experimentPhases[1].progress)
    /\ FLess(experimentPhases[1].progress, FInt(100))


\* ------------------------------------------------------------------------
\* A running phase completes
\* ------------------------------------------------------------------------

LeftOf(w) == {w.phaseId} \cup Range(w.rest)

\* The call suspended as w finishes in this step: the phase it waits on
\* completes and the call is not suspended again.
Finishes(w) ==
    /\ StatusOf(experimentPhases', w.phaseId) = "completed"
    /\ \A k \in 1..Len(runAllWaiting') :
           \E j \in 1..Len(runAllWaiting) :
               runAllWaiting'[k] = runAllWaiting[j]

\* C30 as stated: when the interval callbacks keep running and no phase
\* is paused or removed, every suspended runAllPhases call finishes, and
\* in the step in which a call finishes the phases of its snapshot, the
\* one it waited on last and the rest of its work list among them, are
\* all completed.
C30_RunAllCompletesAll ==
    /\ (runAllWaiting # <<>>) ~> (runAllWaiting = <<>>)
    /\ [][\A k \in 1..Len(runAllWaiting) :
             Finishes(runAllWaiting[k])
             => \A id \in LeftOf(runAllWaiting[k]) :
                    StatusOf(experimentPhases', id) = "completed"]_vars


\* ------------------------------------------------------------------------
\* A drop of a phase that changed while it was dragged
\* ------------------------------------------------------------------------

\* A phase is dragged and dropped on another phase, both on the canvas.
ReorderDrop(t) ==
    /\ handlePhaseDrop(t)
    /\ draggingItem.type = "workflowItem"
    /\ draggingItem.id \in Rendered \ {t}

\* C31: a phase dropped on another phase is put back as it is in the store
\* at the drop, with its status, progress, logs, actualDuration and text of
\* that moment and not as it was when the drag began, and it stands
\* immediately before the target in the canvas of that moment, every other
\* phase unchanged and in its order.
C31_DropUsesCurrentState ==
    [][\A t \in Rendered :
          ReorderDrop(t)
          => /\ PhaseById(experimentPhases', draggingItem.id)
                    = PhaseById(experimentPhases, draggingItem.id)
             /\ MovedBefore(experimentPhases, experimentPhases',
                            draggingItem.id, t)]_vars

\* The first phase was dragged while pending and unedited; it was started,
\* ticked, paused and edited since and then dropped on the phase before
\* it: it stands first, paused, part of the way and edited.
C31_Witness ==
    /\ lastEvent.op = "handlePhaseDrop"
    /\ lastEvent.source = 1
    /\ draggingItem.type = "workflowItem"
    /\ draggingItem.id = 1
    /\ draggingItem.data.status = "pending"
    /\ draggingItem.data.text # "edited"
    /\ Len(experimentPhases) = 2
    /\ experimentPhases[1].id = 1
    /\ lastEvent.pre[1].id = 2
    /\ experimentPhases[1].status = "paused"
    /\ experimentPhases[1].text = "edited"
    /\ FLess(FInt(0), experimentPhases[1].progress)


\* ------------------------------------------------------------------------
\* Drag gestures leave the phases and their intervals alone
\* ------------------------------------------------------------------------

\* A handler of a drag gesture other than the drop on the canvas runs.
DragSessionEvent ==
    \/ \E b \in PaletteSet : handlePaletteDragStart(b)
    \/ \E i \in 1..Len(experimentPhases) :
           handlePhaseDragStart(experimentPhases[i])
    \/ handleCanvasDragEnter
    \/ handleCanvasDragOver
    \/ \E targetIsCanvas \in BOOLEAN : handleCanvasDragLeave(targetIsCanvas)
    \/ \E t \in Rendered : handlePhaseDragEnter(t)
    \/ handlePhaseDragOver
    \/ \E t \in Rendered : handlePhaseDragLeave(t)
    \/ \E t \in Rendered : handlePhaseDrop(t)
    \/ handleDragEnd

\* The phase p after one run of the callback of the interval h.
AfterTick(h, id) ==
    PhaseById(TickMap(Engine, activeIntervals[h], 1).phases, id)

\* C32: a drag-start, an enter, over or leave of the canvas or of a phase,
\* a drop on a phase and a drag-end leave the canvas with the same phases,
\* each with all its fields as before, and leave the registered and the
\* active intervals as they were; wherever a running phase stands and
\* whatever was dropped, it has exactly one interval, whose next callback
\* takes its progress further or completes it.
C32_ReorderMovesOnly ==
    /\ [][DragSessionEvent
          => /\ Len(experimentPhases') = Len(experimentPhases)
             /\ \A id \in Rendered :
                    /\ id \in IdsOf(experimentPhases')
                    /\ PhaseById(experimentPhases', id)
                           = PhaseById(experimentPhases, id)
             /\ phaseIntervals' = phaseIntervals
             /\ activeIntervals' = activeIntervals]_vars
    /\ [](\A id \in Rendered :
             StatusOf(experimentPhases, id) = "running"
             => /\ Cardinality(LiveFor(id)) = 1
                /\ id \in DOMAIN phaseIntervals
                /\ phaseIntervals[id] \in LiveFor(id)
                /\ \A h \in LiveFor(id) :
                       /\ FLess(PhaseById(experimentPhases, id).progress,
                                AfterTick(h, id).progress)
                       /\ AfterTick(h, id).status \in {"running", "completed"})

\* The other phase was dropped on the first one, which now stands last;
\* the first phase was dragged while it ran and has ticked since.
C32_Witness ==
    /\ Len(experimentPhases) = 2
    /\ experimentPhases[2].id = 1
    /\ experimentPhases[2].status = "running"
    /\ draggingItem.type = "workflowItem"
    /\ draggingItem.id = 1
    /\ draggingItem.data.status = "running"
    /\ tickCount[1] > 1
    /\ FLess(draggingItem.data.progress, experimentPhases[2].progress)
    /\ lastEvent = Other


\* ------------------------------------------------------------------------
\* The hovered item
\* ------------------------------------------------------------------------

\* C33: in the workbench and in the workflow builder an item is marked as
\* hovered only while an item of the canvas is dragged, and it is never
\* the dragged item; an enter of an item while a palette block or nothing
\* is dragged, or of the dragged item itself, leaves the mark as it was.
C33_HoverNeedsItemDrag ==
    /\ [](dragOverPhaseId # 0 =>
             /\ draggingItem.type = "workflowItem"
             /\ draggingItem.id # dragOverPhaseId)
    /\ [](dragOverWorkflowItemId # 0 =>
             /\ wfDraggingItem.type = "workflowItem"
             /\ wfDraggingItem.id # dragOverWorkflowItemId)
    /\ [][\A t \in Rendered :
             /\ handlePhaseDragEnter(t)
             /\ draggingItem.type # "workflowItem" \/ draggingItem.id = t
             => dragOverPhaseId' = dragOverPhaseId]_vars
    /\ [][\A t \in IdsOf(workflowSteps) :
             /\ handleWorkflowItemDragEnter(t)
             /\ wfDraggingItem.type # "workflowItem" \/ wfDraggingItem.id = t
             => dragOverWorkflowItemId' = dragOverWorkflowItemId]_vars

\* Phase 1 is dragged over phase 2, on a canvas of three phases.
C33_Witness ==
    /\ variant \in Variants
    /\ Len(experimentPhases) = 3
    /\ draggingItem.type = "workflowItem"
    /\ draggingItem.id = 1
    /\ dragOverPhaseId = 2
    /\ dragOverCanvas


\* ------------------------------------------------------------------------
\* A late leave
\* ------------------------------------------------------------------------

\* C34: a leave of an item clears the mark of the hovered item when that
\* item is the hovered one and otherwise leaves the mark as it was, in the
\* workbench, in the workflow builder and in the list: a leave of one
\* item that comes after the enter of another keeps the other marked.
C34_LeaveClearsOwnMark ==
    /\ [][\A t \in Rendered :
             handlePhaseDragLeave(t)
             => /\ dragOverPhaseId = t => dragOverPhaseId' = 0
                /\ dragOverPhaseId # t
                       => dragOverPhaseId' = dragOverPhaseId]_vars
    /\ [][\A t \in IdsOf(workflowSteps) :
             handleWorkflowItemDragLeave(t)
             => /\ dragOverWorkflowItemId = t
                       => dragOverWorkflowItemId' = 0
                /\ dragOverWorkflowItemId # t
                       => dragOverWorkflowItemId' = dragOverWorkflowItemId]_vars
    /\ [][\A t \in IdsOf(items) :
             handleDragLeave(t)
             => /\ dragOverItemId = t => dragOverItemId' = 0
                /\ dragOverItemId # t
                       => dragOverItemId' = dragOverItemId]_vars

\* Phase 1 is dragged; the leave of phase 2 has just run and phase 3 is
\* still marked.
C34_Witness ==
    /\ draggingItem.type = "workflowItem"
    /\ draggingItem.id = 1
    /\ lastEvent.op = "handlePhaseDragLeave"
    /\ lastEvent.target = 2
    /\ dragOverPhaseId = 3


\* ------------------------------------------------------------------------
\* A drag that starts during another
\* ------------------------------------------------------------------------

\* C35: after a drag-start, whatever was dragged and hovered before, the
\* dragged item is the new one alone: a palette drag holds the palette
\* block and no phase id, a phase drag holds the phase and its id, and no
\* phase is marked as hovered.
C35_DragStartReplaces ==
    /\ [][\A b \in PaletteSet :
             handlePaletteDragStart(b)
             => /\ draggingItem' =
                       [type |-> "paletteItem", id |-> 0, data |-> b]
                /\ dragOverPhaseId' = 0]_vars
    /\ [][\A i \in 1..Len(experimentPhases) :
             handlePhaseDragStart(experimentPhases[i])
             => /\ draggingItem' =
                       [type |-> "workflowItem",
                        id |-> experimentPhases[i].id,
                        data |-> experimentPhases[i]]
                /\ dragOverPhaseId' = 0]_vars

\* The drag of phase 2 began while a phase was dragged over another.
C35_Witness ==
    /\ lastEvent.op = "dragStart"
    /\ lastEvent.session = "workflowItem"
    /\ lastEvent.hover = 3
    /\ draggingItem.type = "workflowItem"
    /\ draggingItem.id = 2
    /\ dragOverPhaseId = 0


\* ------------------------------------------------------------------------
\* A tick touches one phase
\* ------------------------------------------------------------------------

\* The engine after one run of the callback of the interval h, before any
\* runAllPhases call that awaited the phase goes on.
Ticked(h) == TickMap(Engine, activeIntervals[h], 1)

\* The fields of a phase that no tick writes.
FixedFields(p) == <<p.id, p.type, p.text, p.estimatedDuration>>

\* C36: with several phases running, started by hand or by run-all, one
\* run of the callback of a phase's interval leaves every other phase as
\* it was and every other phase's interval registered and active, keeps
\* the order of the canvas and the id, type, text and estimate of its own
\* phase, and clears no interval but its own; a tick step after which the
\* same calls are suspended as before changes no other phase either.
C36_TickTouchesOwnPhase ==
    /\ [](\A h \in DOMAIN activeIntervals :
             LET own == activeIntervals[h].id
                 M == Ticked(h)
             IN  /\ Len(M.phases) = Len(experimentPhases)
                 /\ \A i \in 1..Len(experimentPhases) :
                        /\ experimentPhases[i].id # own
                               => M.phases[i] = experimentPhases[i]
                        /\ FixedFields(M.phases[i])
                               = FixedFields(experimentPhases[i])
                 /\ \A id \in DOMAIN phaseIntervals \ {own} :
                        /\ id \in DOMAIN M.registry
                        /\ M.registry[id] = phaseIntervals[id]
                 /\ DOMAIN M.registry \subseteq DOMAIN phaseIntervals
                 /\ \A g \in DOMAIN activeIntervals \ {h} :
                        /\ g \in DOMAIN M.active
                        /\ M.active[g] = activeIntervals[g]
                 /\ DOMAIN M.active \subseteq DOMAIN activeIntervals)
    /\ [][\A h \in DOMAIN activeIntervals :
             Tick(h) /\ runAllWaiting' = runAllWaiting
             => \A i \in 1..Len(experimentPhases) :
                    experimentPhases[i].id # activeIntervals[h].id
                    => experimentPhases'[i] = experimentPhases[i]]_vars

\* Phase 1, started by run-all, and phase 2, started by hand, both run and
\* have ticked, phase 1 more often.
C36_Witness ==
    /\ Len(experimentPhases) = 2
    /\ runAllCalls = 1
    /\ Len(runAllWaiting) = 1
    /\ runAllWaiting[1].phaseId = 1
    /\ experimentPhases[1].status = "running"
    /\ experimentPhases[2].status = "running"
    /\ tickCount[1] > tickCount[2]
    /\ tickCount[2] > 0
    /\ Cardinality(DOMAIN activeIntervals) = 2


\* ------------------------------------------------------------------------
\* actualDuration
\* ------------------------------------------------------------------------

\* C37: a phase has an actualDuration exactly when it is completed: it has
\* none when it is dropped on the canvas nor while it is pending, running
\* or paused, the tick that completes it sets it, no step changes it while
\* the phase stays completed, and the reset of the completed phase clears
\* it.
C37_DurationIffCompleted ==
    /\ [](\A i \in 1..Len(experimentPhases) :
             (experimentPhases[i].actualDuration # NULL)
             <=> (experimentPhases[i].status = "completed"))
    /\ [][\A id \in Rendered :
             /\ StatusOf(experimentPhases, id) = "completed"
             /\ StatusOf(experimentPhases', id) = "completed"
             => PhaseById(experimentPhases', id).actualDuration
                    = PhaseById(experimentPhases, id).actualDuration]_vars

\* The first phase was completed, reset and run to completion again; the
\* phase dropped on the canvas since has not run.
C37_Witness ==
    /\ Len(experimentPhases) = 2
    /\ experimentPhases[1].status = "completed"
    /\ experimentPhases[1].logs = <<"reset", "started", "completed">>
    /\ experimentPhases[1].actualDuration # NULL
    /\ experimentPhases[2].status = "pending"
    /\ experimentPhases[2].actualDuration = NULL
    /\ experimentPhases[2].logs = <<>>


\* ------------------------------------------------------------------------
\* The log of a phase
\* ------------------------------------------------------------------------

\* The change of status and the logs of the phase id over a step.
StatusStep(id) ==
    <<StatusOf(experimentPhases, id), StatusOf(experimentPhases', id)>>

LogsBefore(id) == PhaseById(experimentPhases, id).logs
LogsAfter(id) == PhaseById(experimentPhases', id).logs

\* C38: over every step but the reset of a completed phase the log of a
\* phase only grows at its end: a start or a resume appends one started
\* entry, the completing tick appends one completed entry, and a pause
\* and every step that leaves the status as it was (a tick that does not
\* complete, a drop of a phase on a phase, a text edit, a drag) leave the
\* log as it was.
C38_LogAppendOnly ==
    [][\A id \in Rendered :
          id \in IdsOf(experimentPhases')
          => /\ StatusStep(id) # <<"completed", "pending">>
                => /\ Len(LogsAfter(id)) >= Len(LogsBefore(id))
                   /\ SubSeq(LogsAfter(id), 1, Len(LogsBefore(id)))
                          = LogsBefore(id)
             /\ StatusStep(id) \in {<<"pending", "running">>,
                                    <<"paused", "running">>}
                => LogsAfter(id) = Append(LogsBefore(id), "started")
             /\ StatusStep(id) = <<"running", "completed">>
                => LogsAfter(id) = Append(LogsBefore(id), "completed")
             /\ \/ StatusStep(id) = <<"running", "paused">>
                \/ StatusStep(id)[1] = StatusStep(id)[2]
                => LogsAfter(id) = LogsBefore(id)]_vars

\* The first phase was started, paused, resumed and completed and edited,
\* and the other phase was dropped before it.
C38_Witness ==
    /\ Len(experimentPhases) = 2
    /\ experimentPhases[2].id = 1
    /\ experimentPhases[2].status = "completed"
    /\ experimentPhases[2].logs = <<"started", "started", "completed">>
    /\ experimentPhases[2].text = "edited"


\* ------------------------------------------------------------------------
\* Teardown
\* ------------------------------------------------------------------------

\* C39: once the component is destroyed no interval is registered and
\* none is active, however many phases were running, and no step changes
\* a phase any more.
C39_TeardownClearsAll ==
    /\ [](destroyed => phaseIntervals = <<>> /\ activeIntervals = <<>>)
    /\ [][destroyed => experimentPhases' = experimentPhases]_vars
    /\ [][onDestroy => experimentPhases' = experimentPhases]_vars

\* The component was destroyed while both phases were running part of the
\* way.
C39_Witness ==
    /\ destroyed
    /\ Len(experimentPhases) = 2
    /\ \A i \in 1..2 :
           /\ experimentPhases[i].status = "running"
           /\ FLess(FInt(0), experimentPhases[i].progress)
    /\ phaseIntervals = <<>>

====
